---- MODULE Spec2Model ----
(***************************************************************************)
(* The OTP service of urban-backend (src/unnamed/part_006): the in-memory  *)
(* otpStore and rateLimitStore, sendOTP, verifyOTP and the periodic        *)
(* cleanupExpiredOTPs, as a state machine over a millisecond clock.        *)
(* JavaScript runs each synchronous stretch of a handler to completion, so *)
(* an action is one such stretch: all of verifyOTP, all of                 *)
(* cleanupExpiredOTPs, and sendOTP up to its only await (the SMS call).    *)
(* The verify-otp endpoint of Controllers/authController.js is modelled    *)
(* with its requests in flight.                                            *)
(***************************************************************************)
EXTENDS Integers, Sequences, FiniteSets, TLC

\* Each action reads Date.now() once: the calls of one synchronous stretch
\* are taken to fall in the same millisecond.

\* ---------------------------------------------------------------- constants
OTP_EXPIRY_MS == 600000
MAX_OTP_ATTEMPTS == 3
RATE_LIMIT_MAX_REQUESTS == 5
RATE_LIMIT_WINDOW_MS == 3600000
RESEND_COOLDOWN_MS == 60000

\* ------------------------------------------------------------------- bounds
\* SMS calls awaiting the provider's answer at one time.
MaxInFlight == 1
\* verify-otp requests received and not yet handled at one time.
MaxRequests == 2

\* A phone number is the sequence of its characters.
PhoneA == <<"+", "9", "1", "9", "0", "0", "0", "0", "0", "0", "0", "0", "1">>
PhoneB == <<"+", "9", "1", "9", "0", "0", "0", "0", "0", "0", "0", "0", "2">>
\* Ten digits without the country code: sendOTP rejects it.
PhoneShort == <<"9", "0", "0", "0", "0", "0", "0", "0", "0", "1">>
\* Thirteen characters after the country code's pattern, the last no digit.
PhoneLetters == <<"+", "9", "1", "9", "0", "0", "0", "0", "0", "0", "0", "0", "x">>
Phones == {PhoneA, PhoneB, PhoneShort, PhoneLetters}
\* The numbers the clients of Spec send: one that passes the format check and
\* one that does not.
Clients == {PhoneA, PhoneShort}

\* Two of the codes generateOTP can return, and the candidates a client sends:
\* those two and one that is never generated.
Codes == {"1000", "9999"}
Candidates == Codes \cup {"0000"}

\* The instants Date.now() is observed at in Spec: the boundaries of the
\* cooldown (60 s) and of the expiry (10 min) of a request made at 0, each
\* with the millisecond before or after it.
Instants == {0, 59999, 60000, 600000, 600001}
\* The instants of HourSpec: the boundary of the rate window (1 h) of a request
\* made at 0, and one instant past the cooldown and one past the expiry.
HourInstants == {0, 60000, 600001, 3599999, 3600000}
\* The instants of FormatSpec: a request's own, the end of its cooldown and
\* the one past its expiry.
FormatInstants == {0, 60000, 600001}
\* The instants of SweepSpec: a request's own, the one past its expiry, and
\* the end of the hour of a request made then.
SweepInstants == {0, 600001, 4200001}
\* The instants of RetrySpec: a request's own, half a second later, and the
\* whole seconds after it on either side of the cooldown's and the window's
\* end.
RetryInstants == {0, 500, 59500, 60500, 3599500, 3600500}
\* The instants of PairSpec: a request's own and the one past its expiry.
PairInstants == {0, 600001}
\* The instants of HttpSpec: a request's own and the one past its expiry.
HttpInstants == {0, 600001}

\* The bodies of the verify-otp requests: PhoneA as it is stored and as
\* dialled locally (a leading 0, no country code), with a code that is never
\* generated and with one that is, and a body without a code.
PhoneLocal == <<"0", "9", "0", "0", "0", "0", "0", "0", "0", "0", "1">>
Body(phoneNumber, otp) == [phoneNumber |-> phoneNumber, otp |-> otp]
Bodies ==
    {Body(PhoneA, "0000"), Body(PhoneLocal, "0000"), Body(PhoneLocal, "1000"),
     Body(PhoneA, "")}

VARIABLES
    now,            \* Date.now()
    otpStore,       \* Map phoneNumber -> {code, createdAt, expiresAt, attempts}
    rateLimitStore, \* Map phoneNumber -> array of timestamps
    inFlight,       \* the recipients of the SMS calls sendOTP is awaiting
    last,           \* the latest call (or its resumption) and what it returned
    requests,       \* per body, the verify-otp requests received, not yet handled
    overlapped,     \* history: a mismatch was counted with a like request waiting
    accepted,       \* history: per phone, the times sendOTP stored a record
    audit,          \* history: per phone, what happened to the latest record
    today,          \* new Date(), as a day
    users,          \* the users collection: per user id, the stored document
    quotaRequests,  \* the contact and listing requests being handled
    quotaLast,      \* the latest response to one of them
    consumed,       \* history: per user, the successes of the calendar month
    orders,         \* the orders the payment gateway created
    payments,       \* the payments made at the gateway, whose signature is out
    payRequest,     \* the payment request being handled
    payLast,        \* the latest response to one
    accounts,       \* the users collection: the phones that have a document
    authRequest,    \* the request protect is handling
    authLast,       \* the latest response of a protected route
    signups,        \* the complete-signup requests awaiting the collection
    verifiedPhones, \* history: the phones verifyOTP has answered Verified for
    property,       \* a property of the collection: views and viewHistory
    viewRequests,   \* the getProperty requests and their tracking updates
    served          \* history: the getProperty requests answered

vars == <<now, otpStore, rateLimitStore, inFlight, last, requests, overlapped,
          accepted, audit, today, users, quotaRequests, quotaLast, consumed,
          orders, payments, payRequest, payLast, accounts, authRequest,
          authLast, signups, verifiedPhones, property, viewRequests, served>>

\* The variables of the HTTP layer.
httpVars == <<requests, overlapped>>

\* The variables of the OTP service.
serviceVars == <<now, otpStore, rateLimitStore, inFlight, last, accepted, audit>>

\* The variables of the quota handlers.
quotaVars == <<today, users, quotaRequests, quotaLast, consumed>>

\* The variables of the payment controller.
payVars == <<orders, payments, payRequest, payLast>>

\* The variables of protect and of the signup.
authVars == <<accounts, authRequest, authLast, signups, verifiedPhones>>

\* The variables of the view tracking.
viewVars == <<property, viewRequests, served>>

appVars == <<payVars, authVars, viewVars>>

\* ------------------------------------------------------------ Map helpers
MapHas(m, k) == k \in DOMAIN m
\* A set that does not overwrite an existing key.
MapSet_ifAbsent(m, k, v) ==
    [x \in DOMAIN m \cup {k} |-> IF x \in DOMAIN m THEN m[x] ELSE v]

MapSet(m, k, v) == [x \in DOMAIN m \cup {k} |-> IF x = k THEN v ELSE m[x]]
\* A delete that leaves the key.
MapDelete_kept(m, k) == m
\* A delete that empties the map (Map.prototype.clear).
MapDelete_clear(m, k) == [x \in {} |-> m[x]]

MapDelete(m, k) == [x \in DOMAIN m \ {k} |-> m[x]]
EmptyMap == [x \in {} |-> 0]

\* The quotient rounded down.
Ceil_floor(a, b) == a \div b

\* Math.ceil(a / b) for b > 0.
Ceil(a, b) == IF a % b = 0 THEN a \div b ELSE (a \div b) + 1

RECURSIVE MinOf(_)
MinOf(s) == IF Len(s) = 1 THEN s[1]
            ELSE LET m == MinOf(Tail(s)) IN IF s[1] < m THEN s[1] ELSE m

startsWith(s, prefix) ==
    Len(s) >= Len(prefix) /\ SubSeq(s, 1, Len(prefix)) = prefix

\* What a call returned: the operation, its phone number, the outcome and the
\* number that comes with it (remainingTime, remainingAttempts, expiresIn or
\* the cleaned count; 0 when there is none).
Reply(op, phone, outcome, n) ==
    [op |-> op, phone |-> phone, outcome |-> outcome, n |-> n]

\* The history kept of a phone's latest record: the code it was stored with,
\* whether storing it overwrote a record, the candidates verifyOTP compared
\* with it, those that did not match, and whether one matched.
Audit(otp, replaced) ==
    [code |-> otp, replaced |-> replaced, compared |-> 0, mismatched |-> 0,
     verified |-> FALSE]

\* ------------------------------------------------------------------ sendOTP
validFormat(phoneNumber) ==
    startsWith(phoneNumber, <<"+", "9", "1">>) /\ Len(phoneNumber) = 13

\* The window closed at its end: a request exactly one hour old still counts.
isRecent_inclusive(timestamp, t) == t - timestamp <= RATE_LIMIT_WINDOW_MS

isRecent(timestamp, t) == t - timestamp < RATE_LIMIT_WINDOW_MS

\* checkRateLimit: the stored array (or []) without the requests older than
\* the window.
recentRequests(phoneNumber) ==
    SelectSeq(IF MapHas(rateLimitStore, phoneNumber)
              THEN rateLimitStore[phoneNumber] ELSE <<>>,
              LAMBDA timestamp : isRecent(timestamp, now))

\* The comparison off by one: a sixth request passes.
rateLimitReached_offByOne(recent) == Len(recent) > RATE_LIMIT_MAX_REQUESTS

rateLimitReached(recent) == Len(recent) >= RATE_LIMIT_MAX_REQUESTS

rateLimitRemaining(recent, t) ==
    Ceil(RATE_LIMIT_WINDOW_MS - (t - MinOf(recent)), 1000)

\* The cooldown taken in seconds against a difference in milliseconds.
cooldownActive_seconds(otpData, t) ==
    t - otpData.createdAt < RESEND_COOLDOWN_MS \div 1000

cooldownActive(otpData, t) == t - otpData.createdAt < RESEND_COOLDOWN_MS

cooldownRemaining(otpData, t) ==
    Ceil(RESEND_COOLDOWN_MS - (t - otpData.createdAt), 1000)

\* The expiry taken from the start of the clock, not from the request.
newOtpData_fixedExpiry(otp, t) ==
    [code |-> otp, createdAt |-> t, expiresAt |-> OTP_EXPIRY_MS, attempts |-> 0]

newOtpData(otp, t) ==
    [code |-> otp, createdAt |-> t, expiresAt |-> t + OTP_EXPIRY_MS,
     attempts |-> 0]

\* What sendOTP(phoneNumber) decides in the current state, in the order of its
\* checks. "Stored": the checks pass, the record is written and the SMS call
\* is made.
sendOutcome(phoneNumber) ==
    IF ~validFormat(phoneNumber) THEN "InvalidFormat"
    ELSE IF rateLimitReached(recentRequests(phoneNumber)) THEN "RateLimited"
    ELSE IF MapHas(otpStore, phoneNumber)
            /\ cooldownActive(otpStore[phoneNumber], now) THEN "CooldownActive"
    ELSE "Stored"

\* The remainingTime (seconds) of a rejected sendOTP.
sendRemainingTime(phoneNumber) ==
    CASE sendOutcome(phoneNumber) = "RateLimited" ->
           rateLimitRemaining(recentRequests(phoneNumber), now)
      [] sendOutcome(phoneNumber) = "CooldownActive" ->
           cooldownRemaining(otpStore[phoneNumber], now)
      [] OTHER -> 0

\* The record written when the SMS call has answered, not before it: the
\* request's timestamp is pushed and the call is made.
sendOTP_commitAfterDispatch(phoneNumber) ==
    /\ sendOutcome(phoneNumber) = "Stored" => Len(inFlight) < MaxInFlight
    /\ last' = Reply("sendOTP", phoneNumber, sendOutcome(phoneNumber),
                     sendRemainingTime(phoneNumber))
    /\ CASE sendOutcome(phoneNumber) = "InvalidFormat" ->
              UNCHANGED <<otpStore, rateLimitStore, inFlight, accepted, audit>>
         [] sendOutcome(phoneNumber) \in {"RateLimited", "CooldownActive"} ->
              /\ rateLimitStore' = MapSet(rateLimitStore, phoneNumber,
                                          recentRequests(phoneNumber))
              /\ UNCHANGED <<otpStore, inFlight, accepted, audit>>
         [] OTHER ->
              /\ rateLimitStore' =
                   MapSet(rateLimitStore, phoneNumber,
                          Append(recentRequests(phoneNumber), now))
              /\ inFlight' = Append(inFlight, phoneNumber)
              /\ accepted' = [accepted EXCEPT ![phoneNumber] = Append(@, now)]
              /\ UNCHANGED <<otpStore, audit>>
    /\ UNCHANGED now

\* The timestamp pushed before the checks: a rejected request counts too.
sendOTP_countsRejected(phoneNumber) ==
    /\ sendOutcome(phoneNumber) = "Stored" => Len(inFlight) < MaxInFlight
    /\ last' = Reply("sendOTP", phoneNumber, sendOutcome(phoneNumber),
                     sendRemainingTime(phoneNumber))
    /\ CASE sendOutcome(phoneNumber) = "InvalidFormat" ->
              UNCHANGED <<otpStore, rateLimitStore, inFlight, accepted, audit>>
         [] sendOutcome(phoneNumber) \in {"RateLimited", "CooldownActive"} ->
              /\ rateLimitStore' =
                   MapSet(rateLimitStore, phoneNumber,
                          Append(recentRequests(phoneNumber), now))
              /\ UNCHANGED <<otpStore, inFlight, accepted, audit>>
         [] OTHER ->
              \E otp \in Codes :
                /\ otpStore' = MapSet(otpStore, phoneNumber,
                                      newOtpData(otp, now))
                /\ rateLimitStore' =
                     MapSet(rateLimitStore, phoneNumber,
                            Append(recentRequests(phoneNumber), now))
                /\ inFlight' = Append(inFlight, phoneNumber)
                /\ accepted' = [accepted EXCEPT ![phoneNumber] = Append(@, now)]
                /\ audit' = [audit EXCEPT
                               ![phoneNumber] =
                                  Audit(otp, MapHas(otpStore, phoneNumber))]
    /\ UNCHANGED now

\* sendOTP up to `await messages.create`: the format check, checkRateLimit
\* (which writes the pruned array back), checkResendCooldown, and the commit.
sendOTP(phoneNumber) ==
    /\ sendOutcome(phoneNumber) = "Stored" => Len(inFlight) < MaxInFlight
    /\ last' = Reply("sendOTP", phoneNumber, sendOutcome(phoneNumber),
                     sendRemainingTime(phoneNumber))
    /\ CASE sendOutcome(phoneNumber) = "InvalidFormat" ->
              UNCHANGED <<otpStore, rateLimitStore, inFlight, accepted, audit>>
         [] sendOutcome(phoneNumber) \in {"RateLimited", "CooldownActive"} ->
              /\ rateLimitStore' = MapSet(rateLimitStore, phoneNumber,
                                          recentRequests(phoneNumber))
              /\ UNCHANGED <<otpStore, inFlight, accepted, audit>>
         [] OTHER ->
              \E otp \in Codes :
                /\ otpStore' = MapSet(otpStore, phoneNumber,
                                      newOtpData(otp, now))
                /\ rateLimitStore' =
                     MapSet(rateLimitStore, phoneNumber,
                            Append(recentRequests(phoneNumber), now))
                /\ inFlight' = Append(inFlight, phoneNumber)
                /\ accepted' = [accepted EXCEPT ![phoneNumber] = Append(@, now)]
                /\ audit' = [audit EXCEPT
                               ![phoneNumber] =
                                  Audit(otp, MapHas(otpStore, phoneNumber))]
    /\ UNCHANGED now

\* The SMS provider answers an awaited call: sendOTP returns success with
\* expiresIn.
smsDelivered(i) ==
    /\ i \in 1..Len(inFlight)
    /\ inFlight' = SubSeq(inFlight, 1, i - 1)
                     \o SubSeq(inFlight, i + 1, Len(inFlight))
    /\ last' = Reply("sendOTP", inFlight[i], "Sent", OTP_EXPIRY_MS \div 1000)
    /\ UNCHANGED <<now, otpStore, rateLimitStore, accepted, audit>>

\* The catch block taking back what the request stored.
smsFailed_rollback(i) ==
    /\ i \in 1..Len(inFlight)
    /\ inFlight' = SubSeq(inFlight, 1, i - 1)
                     \o SubSeq(inFlight, i + 1, Len(inFlight))
    /\ last' = Reply("sendOTP", inFlight[i], "DispatchFailed", 0)
    /\ otpStore' = MapDelete(otpStore, inFlight[i])
    /\ UNCHANGED <<now, rateLimitStore, accepted, audit>>

\* The awaited SMS call throws: the catch block returns a failure and leaves
\* what was stored.
smsFailed(i) ==
    /\ i \in 1..Len(inFlight)
    /\ inFlight' = SubSeq(inFlight, 1, i - 1)
                     \o SubSeq(inFlight, i + 1, Len(inFlight))
    /\ last' = Reply("sendOTP", inFlight[i], "DispatchFailed", 0)
    /\ UNCHANGED <<now, otpStore, rateLimitStore, accepted, audit>>

\* ---------------------------------------------------------------- verifyOTP
\* The record taken as expired already at expiresAt.
isExpired_inclusive(otpData, t) == t >= otpData.expiresAt

isExpired(otpData, t) == t > otpData.expiresAt

\* The comparison off by one: a fourth candidate is compared.
attemptsExceeded_offByOne(otpData) == otpData.attempts > MAX_OTP_ATTEMPTS

attemptsExceeded(otpData) == otpData.attempts >= MAX_OTP_ATTEMPTS

codeMatches(otpData, code) == otpData.code = code

\* The increment stops one short of the maximum.
incrementAttempts_capped(otpData) ==
    [otpData EXCEPT !.attempts =
        IF @ + 1 < MAX_OTP_ATTEMPTS THEN @ + 1 ELSE @]

\* The incremented copy is dropped: the stored record keeps its count.
incrementAttempts_lost(otpData) == otpData

incrementAttempts(otpData) == [otpData EXCEPT !.attempts = @ + 1]

\* The first two checks merged: a missing record is reported as expired.
verifyOutcome_missingAsExpired(phoneNumber, code) ==
    IF ~MapHas(otpStore, phoneNumber) THEN "Expired"
    ELSE IF isExpired(otpStore[phoneNumber], now) THEN "Expired"
    ELSE IF attemptsExceeded(otpStore[phoneNumber]) THEN "AttemptsExceeded"
    ELSE IF codeMatches(otpStore[phoneNumber], code) THEN "Verified"
    ELSE "Mismatch"

\* What verifyOTP(phoneNumber, code) returns in the current state.
verifyOutcome(phoneNumber, code) ==
    IF ~MapHas(otpStore, phoneNumber) THEN "NotFound"
    ELSE IF isExpired(otpStore[phoneNumber], now) THEN "Expired"
    ELSE IF attemptsExceeded(otpStore[phoneNumber]) THEN "AttemptsExceeded"
    ELSE IF codeMatches(otpStore[phoneNumber], code) THEN "Verified"
    ELSE "Mismatch"

\* The remainingAttempts of a mismatch.
remainingAttempts(phoneNumber) ==
    MAX_OTP_ATTEMPTS - incrementAttempts(otpStore[phoneNumber]).attempts

verifyOTP(phoneNumber, code) ==
    /\ last' = Reply("verifyOTP", phoneNumber, verifyOutcome(phoneNumber, code),
                     IF verifyOutcome(phoneNumber, code) = "Mismatch"
                     THEN remainingAttempts(phoneNumber) ELSE 0)
    /\ CASE verifyOutcome(phoneNumber, code) = "NotFound" ->
              UNCHANGED <<otpStore, audit>>
         [] verifyOutcome(phoneNumber, code) \in {"Expired", "AttemptsExceeded"} ->
              /\ otpStore' = MapDelete(otpStore, phoneNumber)
              /\ UNCHANGED audit
         [] verifyOutcome(phoneNumber, code) = "Verified" ->
              /\ otpStore' = MapDelete(otpStore, phoneNumber)
              /\ audit' = [audit EXCEPT ![phoneNumber].compared = @ + 1,
                                        ![phoneNumber].verified = TRUE]
         [] OTHER ->
              /\ otpStore' = MapSet(otpStore, phoneNumber,
                                    incrementAttempts(otpStore[phoneNumber]))
              /\ audit' = [audit EXCEPT ![phoneNumber].compared = @ + 1,
                                        ![phoneNumber].mismatched = @ + 1]
    /\ UNCHANGED <<now, rateLimitStore, inFlight, accepted>>

\* ------------------------------------------------------- cleanupExpiredOTPs
\* The removed rate-limit keys counted too.
cleanupExpiredOTPs_countsKeys ==
    LET expired == {p \in DOMAIN otpStore : isExpired(otpStore[p], now)}
        kept == {p \in DOMAIN rateLimitStore : Len(recentRequests(p)) # 0}
    IN  /\ otpStore' = [p \in DOMAIN otpStore \ expired |-> otpStore[p]]
        /\ rateLimitStore' = [p \in kept |-> recentRequests(p)]
        /\ last' = Reply("cleanupExpiredOTPs", <<>>, "Cleaned",
                         Cardinality(expired)
                           + Cardinality(DOMAIN rateLimitStore \ kept))
        /\ UNCHANGED <<now, inFlight, accepted, audit>>

\* The emptied arrays set, not deleted.
cleanupExpiredOTPs_keepsEmpty ==
    LET expired == {p \in DOMAIN otpStore : isExpired(otpStore[p], now)}
    IN  /\ otpStore' = [p \in DOMAIN otpStore \ expired |-> otpStore[p]]
        /\ rateLimitStore' =
              [p \in DOMAIN rateLimitStore |-> recentRequests(p)]
        /\ last' = Reply("cleanupExpiredOTPs", <<>>, "Cleaned",
                         Cardinality(expired))
        /\ UNCHANGED <<now, inFlight, accepted, audit>>

\* The second loop left out: only the records are swept.
cleanupExpiredOTPs_recordsOnly ==
    LET expired == {p \in DOMAIN otpStore : isExpired(otpStore[p], now)}
    IN  /\ otpStore' = [p \in DOMAIN otpStore \ expired |-> otpStore[p]]
        /\ last' = Reply("cleanupExpiredOTPs", <<>>, "Cleaned",
                         Cardinality(expired))
        /\ UNCHANGED <<now, rateLimitStore, inFlight, accepted, audit>>

cleanupExpiredOTPs ==
    LET expired == {p \in DOMAIN otpStore : isExpired(otpStore[p], now)}
        kept == {p \in DOMAIN rateLimitStore : Len(recentRequests(p)) # 0}
    IN  /\ otpStore' = [p \in DOMAIN otpStore \ expired |-> otpStore[p]]
        /\ rateLimitStore' = [p \in kept |-> recentRequests(p)]
        /\ last' = Reply("cleanupExpiredOTPs", <<>>, "Cleaned",
                         Cardinality(expired))
        /\ UNCHANGED <<now, inFlight, accepted, audit>>

\* ------------------------------------------ authController.js: verify-otp
RECURSIVE dropLeading(_, _)
dropLeading(s, ch) ==
    IF s # <<>> /\ s[1] = ch THEN dropLeading(Tail(s), ch) ELSE s

reverse(s) == [i \in 1..Len(s) |-> s[Len(s) + 1 - i]]

\* String.prototype.trim, for the blank.
trim(s) == reverse(dropLeading(reverse(dropLeading(s, " ")), " "))

\* The phone of the body with the country code put before it (and the
\* leading zeros dropped) when it does not start with it.
normalizePhone(phoneNumber) ==
    IF startsWith(trim(phoneNumber), <<"+", "9", "1">>)
    THEN trim(phoneNumber)
    ELSE <<"+", "9", "1">> \o dropLeading(trim(phoneNumber), "0")

RECURSIVE sumOver(_)
sumOver(S) ==
    IF S = {} THEN 0
    ELSE LET req == CHOOSE x \in S : TRUE
         IN  requests[req] + sumOver(S \ {req})

\* The number of requests received and not yet handled.
waiting == sumOver(Bodies)

\* A request arrives; its handler runs later, in any order with the others.
receiveVerifyOtp(req) ==
    /\ waiting < MaxRequests
    /\ requests' = [requests EXCEPT ![req] = @ + 1]
    /\ UNCHANGED <<now, otpStore, rateLimitStore, inFlight, last, overlapped,
                   accepted, audit>>

\* The handler of one request, up to its reply or to its first await (the
\* user lookup after a verified code): the check of the body, the
\* normalisation and the call of verifyOTP, without a break.
verifyOtp(req) ==
    /\ requests[req] > 0
    /\ requests' = [requests EXCEPT ![req] = @ - 1]
    /\ IF req.phoneNumber = <<>> \/ req.otp = ""
       THEN /\ last' = Reply("verifyOtp", req.phoneNumber, "MissingFields", 400)
            /\ UNCHANGED <<now, otpStore, rateLimitStore, inFlight, overlapped,
                           accepted, audit>>
       ELSE /\ verifyOTP(normalizePhone(req.phoneNumber), req.otp)
            /\ overlapped' =
                 (\/ overlapped
                  \/ /\ verifyOutcome(normalizePhone(req.phoneNumber), req.otp)
                          = "Mismatch"
                     /\ \E other \in Bodies :
                          /\ requests'[other] > 0
                          /\ normalizePhone(other.phoneNumber)
                               = normalizePhone(req.phoneNumber)
                          /\ other.otp = req.otp)

\* ------------------------------------------ part_002: the User quota fields
\* A Date is kept as its day, counted from 1970-01-01; the quota code reads
\* only the month and the year of a Date. The calendar is the proleptic
\* Gregorian one, read in UTC.
civil(date) ==
    LET z == date + 719468
        era == z \div 146097
        doe == z - era * 146097
        yoe == (doe - doe \div 1460 + doe \div 36524 - doe \div 146096) \div 365
        doy == doe - (365 * yoe + yoe \div 4 - yoe \div 100)
        mp == (5 * doy + 2) \div 153
        m == IF mp < 10 THEN mp + 3 ELSE mp - 9
    IN  [year |-> IF m <= 2 THEN yoe + era * 400 + 1 ELSE yoe + era * 400,
         month |-> m - 1]

getMonth(date) == civil(date).month
getFullYear(date) == civil(date).year

\* 2025-01-31, 2025-02-01, 2025-12-31, 2026-01-01 and 2026-01-31: the two
\* sides of a month's end and of a year's end, and the same month a year on.
Days == {20119, 20120, 20453, 20454, 20484}
\* The day the runs start on (2025-01-31).
FirstDay == 20119
\* The reset dates stored before it: 2024-01-15, 2024-12-31 and 2025-01-15.
EarlierDays == {19737, 20088, 20103}

UserIds == {"u1"}

User(accountType, role, views, viewsDate, listed, listedDate) ==
    [accountType |-> accountType, role |-> role,
     contactViewsUsed |-> views,
     contactViewsResetDate |-> viewsDate,
     propertiesListedThisMonth |-> listed,
     propertiesListedResetDate |-> listedDate]

getAccountLimits(accountType) ==
    IF accountType = "premium"
    THEN [contactViews |-> 10, propertyListings |-> 20]
    ELSE [contactViews |-> 1, propertyListings |-> 2]

\* Only the month compared: the same month of another year passes as current.
monthChanged_monthOnly(date, resetDate) ==
    getMonth(date) # getMonth(resetDate)

monthChanged(date, resetDate) ==
    \/ getMonth(date) # getMonth(resetDate)
    \/ getFullYear(date) # getFullYear(resetDate)

\* The counter zeroed and the date left as it was.
resetContactViews_dateKept(user, date) ==
    IF monthChanged(date, user.contactViewsResetDate)
    THEN [user EXCEPT !.contactViewsUsed = 0]
    ELSE user

resetContactViews(user, date) ==
    IF monthChanged(date, user.contactViewsResetDate)
    THEN [user EXCEPT !.contactViewsUsed = 0, !.contactViewsResetDate = date]
    ELSE user

resetListings(user, date) ==
    IF monthChanged(date, user.propertiesListedResetDate)
    THEN [user EXCEPT !.propertiesListedThisMonth = 0,
                      !.propertiesListedResetDate = date]
    ELSE user

\* The document after the assignments of resetMonthlyCountersIfNeeded, before
\* its save. The stored dates are never null: the schema defaults them.
resetMonthlyCountersIfNeeded(user, date) ==
    resetListings(resetContactViews(user, date), date)

\* The paths of a document that differ from what was loaded: the ones a save
\* writes.
modifiedPaths(loaded, user) == {f \in DOMAIN user : user[f] # loaded[f]}

\* document.save(): the modified paths written to the stored document.
save(stored, user, paths) ==
    [f \in DOMAIN stored |-> IF f \in paths THEN user[f] ELSE stored[f]]

\* -------------------- propertyController.js: getOwnerContact, createProperty
\* Contact and listing requests handled at one time.
MaxQuotaRequests == 2

Slots == 1..MaxQuotaRequests
Kinds == {"contact", "listing"}
BlankUser == User("free", "guest", 0, 0, 0, 0)

\* A request being handled: its kind, the await it stands at, req.user with
\* the paths modified since it was loaded, and whether what it asks for is
\* in order (the property exists; the body of the listing is valid).
Request(uid, kind, pc, user, dirty, ok) ==
    [uid |-> uid, kind |-> kind, pc |-> pc, user |-> user, dirty |-> dirty,
     ok |-> ok]

Idle == Request("", "none", "idle", BlankUser, {}, TRUE)

\* A response: the status, what it means, and the remaining, used and limit
\* it reports (none or one each).
QuotaReply(uid, kind, status, outcome, remaining, used, limit) ==
    [uid |-> uid, kind |-> kind, status |-> status, outcome |-> outcome,
     remaining |-> remaining, used |-> used, limit |-> limit]

NoSuccesses == [contact |-> 0, listing |-> 0, created |-> 0]

saved(req) == [users EXCEPT ![req.uid] = save(@, req.user, req.dirty)]

\* A request arrives with a valid token: protect awaits User.findById.
receiveQuota(r, uid, kind, ok) ==
    /\ quotaRequests[r].pc = "idle"
    /\ \A s \in 1..(r - 1) : quotaRequests[s].pc # "idle"
    /\ quotaRequests' =
         [quotaRequests EXCEPT
            ![r] = Request(uid, kind, "protect", BlankUser, {}, ok)]
    /\ UNCHANGED <<today, users, quotaLast, consumed>>

\* The call of resetMonthlyCountersIfNeeded up to its await of save.
callReset(req) ==
    [req EXCEPT !.user = resetMonthlyCountersIfNeeded(req.user, today),
                !.dirty = modifiedPaths(
                              req.user,
                              resetMonthlyCountersIfNeeded(req.user, today)),
                !.pc = "resetSave"]

\* User.findById answers: req.user is the stored document, and the handler
\* starts: getOwnerContact awaits the property, createProperty the reset.
protect(r) ==
    /\ quotaRequests[r].pc = "protect"
    /\ LET req == [quotaRequests[r] EXCEPT !.user = users[quotaRequests[r].uid]]
       IN  quotaRequests' =
             [quotaRequests EXCEPT
                ![r] = IF req.kind = "contact"
                       THEN [req EXCEPT !.pc = "findProperty"]
                       ELSE callReset(req)]
    /\ UNCHANGED <<today, users, quotaLast, consumed>>

\* getOwnerContact: Property.findById answers.
findProperty(r) ==
    /\ quotaRequests[r].pc = "findProperty"
    /\ IF ~quotaRequests[r].ok
       THEN /\ quotaLast' = QuotaReply(quotaRequests[r].uid, "contact", 404,
                                       "PropertyNotFound", {}, {}, {})
            /\ quotaRequests' = [quotaRequests EXCEPT ![r] = Idle]
       ELSE /\ quotaRequests' =
                 [quotaRequests EXCEPT ![r] = callReset(quotaRequests[r])]
            /\ UNCHANGED quotaLast
    /\ UNCHANGED <<today, users, consumed>>

\* The comparison strict: a reveal at the limit passes.
contactLimitReached_strict(user) ==
    getAccountLimits(user.accountType).contactViews - user.contactViewsUsed < 0

contactLimitReached(user) ==
    getAccountLimits(user.accountType).contactViews - user.contactViewsUsed <= 0

\* The comparison strict: a request at the limit passes.
listingLimitReached_strict(user) ==
    user.propertiesListedThisMonth
        > getAccountLimits(user.accountType).propertyListings

listingLimitReached(user) ==
    user.propertiesListedThisMonth
        >= getAccountLimits(user.accountType).propertyListings

\* createProperty from the validation of the body to the await of
\* Property.create.
validateBody(r, req) ==
    IF ~req.ok
    THEN /\ quotaLast' = QuotaReply(req.uid, "listing", 400, "InvalidBody",
                                    {}, {}, {})
         /\ quotaRequests' = [quotaRequests EXCEPT ![r] = Idle]
    ELSE /\ quotaRequests' =
              [quotaRequests EXCEPT ![r] = [req EXCEPT !.pc = "create"]]
         /\ UNCHANGED quotaLast

\* The save of resetMonthlyCountersIfNeeded is done: the limit is tested and
\* the handler goes on to its next await.
resetSaved(r) ==
    /\ quotaRequests[r].pc = "resetSave"
    /\ users' = saved(quotaRequests[r])
    /\ LET req == [quotaRequests[r] EXCEPT !.dirty = {}]
           limits == getAccountLimits(req.user.accountType)
       IN  IF req.kind = "contact"
           THEN IF contactLimitReached(req.user)
                THEN /\ quotaLast' =
                          QuotaReply(req.uid, "contact", 403, "LimitReached",
                                     {}, {req.user.contactViewsUsed},
                                     {limits.contactViews})
                     /\ quotaRequests' = [quotaRequests EXCEPT ![r] = Idle]
                ELSE /\ quotaRequests' =
                          [quotaRequests EXCEPT
                             ![r] = [req EXCEPT
                                       !.user.contactViewsUsed = @ + 1,
                                       !.dirty = {"contactViewsUsed"},
                                       !.pc = "consumeSave"]]
                     /\ UNCHANGED quotaLast
           ELSE IF listingLimitReached(req.user)
                THEN /\ quotaLast' =
                          QuotaReply(req.uid, "listing", 403, "LimitReached",
                                     {}, {}, {})
                     /\ quotaRequests' = [quotaRequests EXCEPT ![r] = Idle]
                ELSE IF req.user.role = "guest"
                THEN /\ quotaRequests' =
                          [quotaRequests EXCEPT
                             ![r] = [req EXCEPT !.user.role = "host",
                                                !.dirty = {"role"},
                                                !.pc = "upgradeSave"]]
                     /\ UNCHANGED quotaLast
                ELSE validateBody(r, req)
    /\ UNCHANGED <<today, consumed>>

\* The save of upgradeToHost is done.
upgradeSaved(r) ==
    /\ quotaRequests[r].pc = "upgradeSave"
    /\ users' = saved(quotaRequests[r])
    /\ validateBody(r, [quotaRequests[r] EXCEPT !.dirty = {}])
    /\ UNCHANGED <<today, consumed>>

\* Property.create is done: the listing counter is incremented and saved.
propertyCreated(r) ==
    /\ quotaRequests[r].pc = "create"
    /\ consumed' = [consumed EXCEPT ![quotaRequests[r].uid].created = @ + 1]
    /\ quotaRequests' =
         [quotaRequests EXCEPT
            ![r] = [@ EXCEPT !.user.propertiesListedThisMonth = @ + 1,
                             !.dirty = {"propertiesListedThisMonth"},
                             !.pc = "consumeSave"]]
    /\ UNCHANGED <<today, users, quotaLast>>

\* The save of the incremented counter is done: the response is sent.
consumeSaved(r) ==
    /\ quotaRequests[r].pc = "consumeSave"
    /\ users' = saved(quotaRequests[r])
    /\ LET req == quotaRequests[r]
           limits == getAccountLimits(req.user.accountType)
       IN  IF req.kind = "contact"
           THEN /\ quotaLast' =
                     QuotaReply(req.uid, "contact", 200, "Consumed",
                                {limits.contactViews
                                    - req.user.contactViewsUsed},
                                {req.user.contactViewsUsed},
                                {limits.contactViews})
                /\ consumed' = [consumed EXCEPT ![req.uid].contact = @ + 1]
           ELSE /\ quotaLast' =
                     QuotaReply(req.uid, "listing", 201, "Consumed",
                                {}, {}, {})
                /\ consumed' = [consumed EXCEPT ![req.uid].listing = @ + 1]
    /\ quotaRequests' = [quotaRequests EXCEPT ![r] = Idle]
    /\ UNCHANGED today

\* The days pass; the history of a month ends with it.
AdvanceDay(date) ==
    /\ date > today
    /\ today' = date
    /\ consumed' = IF monthChanged(date, today)
                   THEN [uid \in UserIds |-> NoSuccesses]
                   ELSE consumed
    /\ UNCHANGED <<users, quotaRequests, quotaLast>>

\* ------------------------------------------ part_005: createOrder, verifyPayment
\* The users of the payment routes, and the ids the gateway gives out.
Payers == {"u1", "u2"}
OrderIds == {"order_1", "order_2"}
PaymentIds == {"pay_1"}

\* process.env.RAZORPAY_KEY_SECRET, and a key that is not it.
KEY_SECRET == "key_secret"
OtherKey == "other_key"

\* razorpay_order_id + "|" + razorpay_payment_id
signedBody(order_id, payment_id) == <<order_id, "|", payment_id>>

\* crypto.createHmac("sha256", key).update(body).digest("hex"): equal for
\* equal keys and bodies only.
hmac(key, body) == [key |-> key, body |-> body]

\* The body without a razorpay_signature.
NoSignature == hmac("", <<>>)

\* An order of the gateway, with notes.userId.
Order(id, userId) == [id |-> id, userId |-> userId]

\* A payment made at the gateway's checkout.
Payment(order_id, payment_id) == [order |-> order_id, payment |-> payment_id]

\* What a client can send as razorpay_signature: nothing, a signature made
\* without the secret, and the gateway's signature once the payment is made.
Signatures(order_id, payment_id) ==
    {NoSignature, hmac(OtherKey, signedBody(order_id, payment_id))}
      \cup {hmac(KEY_SECRET, signedBody(pay.order, pay.payment)) :
              pay \in {pay \in payments : /\ pay.order = order_id
                                          /\ pay.payment = payment_id}}

PayRequest(uid, order_id, payment_id, signature, pc, user, dirty) ==
    [uid |-> uid, order |-> order_id, payment |-> payment_id,
     signature |-> signature, pc |-> pc, user |-> user, dirty |-> dirty]

PayIdle == PayRequest("", "", "", NoSignature, "idle", BlankUser, {})

PayReply(uid, op, status, outcome) ==
    [uid |-> uid, op |-> op, status |-> status, outcome |-> outcome]

\* createOrder, for a user that protect has loaded: the gateway creates the
\* order with the user's id in its notes.
createOrder(uid) ==
    /\ payRequest.pc = "idle"
    /\ IF users[uid].accountType = "premium"
       THEN /\ payLast' = PayReply(uid, "createOrder", 400, "AlreadyPremium")
            /\ UNCHANGED orders
       ELSE \E id \in OrderIds :
              /\ \A order \in orders : order.id # id
              /\ orders' = orders \cup {Order(id, uid)}
              /\ payLast' = PayReply(uid, "createOrder", 200, "Created")
    /\ UNCHANGED <<payments, payRequest>>

\* The gateway's checkout: an order it created is paid, and the payment id
\* and the signature go to the client.
checkout(order_id, payment_id) ==
    /\ \E order \in orders : order.id = order_id
    /\ payments' = payments \cup {Payment(order_id, payment_id)}
    /\ UNCHANGED <<orders, payRequest, payLast>>

signatureMatches(order_id, payment_id, signature) ==
    hmac(KEY_SECRET, signedBody(order_id, payment_id)) = signature

\* verifyPayment up to its await of User.findById.
verifyPayment(uid, order_id, payment_id, signature) ==
    /\ payRequest.pc = "idle"
    /\ IF order_id = "" \/ payment_id = "" \/ signature = NoSignature
       THEN /\ payLast' = PayReply(uid, "verifyPayment", 400, "MissingFields")
            /\ UNCHANGED payRequest
       ELSE IF ~signatureMatches(order_id, payment_id, signature)
       THEN /\ payLast' = PayReply(uid, "verifyPayment", 400,
                                   "VerificationFailed")
            /\ UNCHANGED payRequest
       ELSE /\ payRequest' = PayRequest(uid, order_id, payment_id, signature,
                                        "findById", BlankUser, {})
            /\ UNCHANGED payLast
    /\ UNCHANGED <<orders, payments>>

\* User.findById answers: accountType is set and the save awaited.
paymentUserFound ==
    /\ payRequest.pc = "findById"
    /\ payRequest' =
         [payRequest EXCEPT
            !.user = [users[payRequest.uid] EXCEPT !.accountType = "premium"],
            !.dirty = modifiedPaths(
                          users[payRequest.uid],
                          [users[payRequest.uid] EXCEPT
                              !.accountType = "premium"]),
            !.pc = "save"]
    /\ UNCHANGED <<orders, payments, payLast>>

\* The save is done: the response is sent.
paymentSaved ==
    /\ payRequest.pc = "save"
    /\ users' = [users EXCEPT
                   ![payRequest.uid] = save(@, payRequest.user,
                                            payRequest.dirty)]
    /\ payLast' = PayReply(payRequest.uid, "verifyPayment", 200, "Upgraded")
    /\ payRequest' = PayIdle
    /\ UNCHANGED <<orders, payments>>

\* ----------------------------------------------------- middleware/auth.js
\* process.env.JWT_SECRET
JWT_SECRET == "jwt_secret"

\* The users the tokens were signed for.
AuthUsers == {PhoneA, PhoneB}

\* A token: the id in its payload, the key that signed it, and whether its
\* exp has passed. A string that is no JWT has no key.
Token(id, key, expired) == [id |-> id, key |-> key, expired |-> expired]
NotAJwt == Token(<<>>, "", FALSE)
Tokens ==
    {Token(id, JWT_SECRET, expired) : id \in AuthUsers, expired \in BOOLEAN}
      \cup {Token(PhoneA, OtherKey, FALSE), NotAJwt}

\* The Authorization header: its scheme and what follows the space, if
\* anything does; no scheme when the header is absent.
Header(scheme, credentials) == [scheme |-> scheme, credentials |-> credentials]
Headers ==
    {Header("", <<>>), Header("Bearer", <<>>)}
      \cup {Header(scheme, <<token>>) :
              scheme \in {"Bearer", "Basic"}, token \in Tokens}

\* A request: req.cookies.token, if any, and the header.
AuthRequest(cookie, authorization) ==
    [cookie |-> cookie, authorization |-> authorization]
AuthRequests ==
    {AuthRequest(<<>>, authorization) : authorization \in Headers}
      \cup {AuthRequest(<<token>>, Header("", <<>>)) : token \in Tokens}
      \cup {AuthRequest(<<NotAJwt>>,
                        Header("Bearer", <<Token(PhoneA, JWT_SECRET, FALSE)>>))}

\* The token protect takes: the cookie's, else the Bearer header's.
tokenOf(req) ==
    IF req.cookie # <<>> THEN req.cookie
    ELSE IF req.authorization.scheme = "Bearer"
    THEN req.authorization.credentials
    ELSE <<>>

\* jwt.verify with a key that is not checked.
jwtVerifies_anyKey(token) == token.key # "" /\ ~token.expired

\* jwt.verify(token, JWT_SECRET) returns the payload and does not throw.
jwtVerifies(token) == token.key = JWT_SECRET /\ ~token.expired

AuthIdle == [pc |-> "idle", req |-> AuthRequest(<<>>, Header("", <<>>)),
             id |-> <<>>]

\* A response, or the call of next(): the status, what it means and req.user,
\* if set.
AuthReply(op, status, outcome, user) ==
    [op |-> op, status |-> status, outcome |-> outcome, user |-> user]

\* protect up to its await of User.findById.
protectToken(req) ==
    /\ authRequest.pc = "idle"
    /\ IF tokenOf(req) = <<>>
       THEN /\ authLast' = AuthReply("protect", 401, "NoToken", <<>>)
            /\ UNCHANGED authRequest
       ELSE IF ~jwtVerifies(tokenOf(req)[1])
       THEN /\ authLast' = AuthReply("protect", 401, "InvalidToken", <<>>)
            /\ UNCHANGED authRequest
       ELSE /\ authRequest' = [pc |-> "findById", req |-> req,
                               id |-> tokenOf(req)[1].id]
            /\ UNCHANGED authLast
    /\ UNCHANGED <<accounts, signups, verifiedPhones>>

\* User.findById answers: the handler is called with req.user, or the
\* request ends with 404.
protectUser ==
    /\ authRequest.pc = "findById"
    /\ authLast' = IF authRequest.id \in accounts
                   THEN AuthReply("protect", 0, "Next", <<authRequest.id>>)
                   ELSE AuthReply("protect", 404, "UserNotFound", <<>>)
    /\ authRequest' = AuthIdle
    /\ UNCHANGED <<accounts, signups, verifiedPhones>>

\* A user is deleted from the collection (part_004: User.deleteMany).
deleteUser(id) ==
    /\ id \in accounts
    /\ accounts' = accounts \ {id}
    /\ UNCHANGED <<authRequest, authLast, signups, verifiedPhones>>

\* ---------------------------------------- authController.js: completeSignup
Signup(phone, pc) == [phone |-> phone, pc |-> pc]

\* completeSignup up to its await of User.findOne: the required fields and
\* the normalised phone.
completeSignup(phone, filled) ==
    /\ IF phone = <<>> \/ ~filled
       THEN /\ authLast' = AuthReply("completeSignup", 400, "MissingFields",
                                     <<>>)
            /\ UNCHANGED signups
       ELSE /\ signups' = signups \cup {Signup(normalizePhone(phone), "findOne")}
            /\ UNCHANGED authLast
    /\ UNCHANGED <<accounts, authRequest, verifiedPhones>>

\* User.findOne({phone}) answers.
signupFindOne(signup) ==
    /\ signup \in signups
    /\ signup.pc = "findOne"
    /\ IF signup.phone \in accounts
       THEN /\ authLast' = AuthReply("completeSignup", 400, "UserExists", <<>>)
            /\ signups' = signups \ {signup}
       ELSE /\ signups' = (signups \ {signup})
                            \cup {Signup(signup.phone, "create")}
            /\ UNCHANGED authLast
    /\ UNCHANGED <<accounts, authRequest, verifiedPhones>>

\* The phone validator of the schema.
phoneValid(phone) ==
    /\ Len(phone) = 13
    /\ startsWith(phone, <<"+", "9", "1">>)
    /\ \A i \in 4..13 :
          phone[i] \in {"0", "1", "2", "3", "4", "5", "6", "7", "8", "9"}

\* User.create answers: the document with phoneVerified = true is there, or
\* the validator or the unique index has refused it.
signupCreate(signup) ==
    /\ signup \in signups
    /\ signup.pc = "create"
    /\ signups' = signups \ {signup}
    /\ IF ~phoneValid(signup.phone)
       THEN /\ authLast' = AuthReply("completeSignup", 400, "ValidationError",
                                     <<>>)
            /\ UNCHANGED accounts
       ELSE IF signup.phone \in accounts
       THEN /\ authLast' = AuthReply("completeSignup", 400, "DuplicateKey",
                                     <<>>)
            /\ UNCHANGED accounts
       ELSE /\ accounts' = accounts \cup {signup.phone}
            /\ authLast' = AuthReply("completeSignup", 201, "Created",
                                     <<signup.phone>>)
    /\ UNCHANGED <<authRequest, verifiedPhones>>

\* A verifyOTP call, with the history of the phones it verified.
verifyOTPNoted(phoneNumber, code) ==
    /\ verifyOTP(phoneNumber, code)
    /\ verifiedPhones' = IF verifyOutcome(phoneNumber, code) = "Verified"
                         THEN verifiedPhones \cup {phoneNumber}
                         ELSE verifiedPhones
    /\ UNCHANGED <<accounts, authRequest, authLast, signups>>

\* ------------------------------------- propertyController.js: getProperty
\* getProperty requests handled at one time, and in all.
MaxViewRequests == 2
MaxViews == 3
ViewSlots == 1..MaxViewRequests

Property(views, viewHistory) == [views |-> views, viewHistory |-> viewHistory]
ViewEntry(date, count) == [date |-> date, count |-> count]
ViewRequest(pc, date) == [pc |-> pc, date |-> date]
ViewIdle == ViewRequest("idle", 0)

\* The requests under way.
viewing == {r \in ViewSlots : viewRequests[r].pc # "idle"}

\* A request arrives: Property.findById is awaited.
receiveView(r) ==
    /\ viewRequests[r].pc = "idle"
    /\ served + Cardinality(viewing) < MaxViews
    /\ viewRequests' = [viewRequests EXCEPT ![r] = ViewRequest("findById", 0)]
    /\ UNCHANGED <<property, served>>

\* Property.findById answers: today's midnight is taken, findOneAndUpdate is
\* issued and the response is sent.
propertyFound(r) ==
    /\ viewRequests[r].pc = "findById"
    /\ viewRequests' = [viewRequests EXCEPT ![r] = ViewRequest("track", today)]
    /\ served' = served + 1
    /\ UNCHANGED property

\* The index of the first entry of a date (the positional operator).
firstOf(viewHistory, date) ==
    CHOOSE i \in 1..Len(viewHistory) :
        /\ viewHistory[i].date = date
        /\ \A j \in 1..(i - 1) : viewHistory[j].date # date

hasEntry(viewHistory, date) ==
    \E i \in 1..Len(viewHistory) : viewHistory[i].date = date

\* findOneAndUpdate is done: it counted the view in today's entry, or it
\* found no entry and findByIdAndUpdate is issued.
viewTracked(r) ==
    /\ viewRequests[r].pc = "track"
    /\ IF hasEntry(property.viewHistory, viewRequests[r].date)
       THEN /\ property' =
                 [property EXCEPT
                    !.views = @ + 1,
                    !.viewHistory[firstOf(property.viewHistory,
                                          viewRequests[r].date)].count = @ + 1]
            /\ viewRequests' = [viewRequests EXCEPT ![r] = ViewIdle]
       ELSE /\ viewRequests' = [viewRequests EXCEPT ![r].pc = "push"]
            /\ UNCHANGED property
    /\ UNCHANGED served

\* findByIdAndUpdate is done: the view is counted and an entry pushed.
viewPushed(r) ==
    /\ viewRequests[r].pc = "push"
    /\ property' =
         [property EXCEPT
            !.views = @ + 1,
            !.viewHistory = Append(@, ViewEntry(viewRequests[r].date, 1))]
    /\ viewRequests' = [viewRequests EXCEPT ![r] = ViewIdle]
    /\ UNCHANGED served

\* ------------------------------------------------- the state at the start
AppInit ==
    /\ orders = {}
    /\ payments = {}
    /\ payRequest = PayIdle
    /\ payLast = PayReply("", "none", 0, "none")
    /\ accounts = {}
    /\ authRequest = AuthIdle
    /\ authLast = AuthReply("none", 0, "none", <<>>)
    /\ signups = {}
    /\ verifiedPhones = {}
    /\ property = Property(0, <<>>)
    /\ viewRequests = [r \in ViewSlots |-> ViewIdle]
    /\ served = 0

\* ------------------------------------------------------------------- clock
HourMs == 3600000

Advance(t) ==
    /\ t > now
    /\ now' = t
    /\ accepted' = [p \in Phones |->
                      SelectSeq(accepted[p], LAMBDA at : t - at < HourMs)]
    /\ UNCHANGED <<otpStore, rateLimitStore, inFlight, last, audit>>

\* ----------------------------------------------------------- specification
Init ==
    /\ now = 0
    /\ otpStore = EmptyMap
    /\ rateLimitStore = EmptyMap
    /\ inFlight = <<>>
    /\ last = Reply("none", <<>>, "none", 0)
    /\ requests = [req \in Bodies |-> 0]
    /\ overlapped = FALSE
    /\ accepted = [p \in Phones |-> <<>>]
    /\ audit = [p \in Phones |-> Audit("", FALSE)]
    /\ today = FirstDay
    /\ users = [uid \in UserIds |->
                  User("free", "guest", 0, FirstDay, 0, FirstDay)]
    /\ quotaRequests = [r \in Slots |-> Idle]
    /\ quotaLast = QuotaReply("", "none", 0, "none", {}, {}, {})
    /\ AppInit
    /\ consumed = [uid \in UserIds |-> NoSuccesses]

Next ==
    \/ \E p \in Clients : sendOTP(p) /\ UNCHANGED <<httpVars, quotaVars, appVars>>
    \/ \E i \in 1..MaxInFlight : smsDelivered(i) /\ UNCHANGED <<httpVars, quotaVars, appVars>>
    \/ \E i \in 1..MaxInFlight : smsFailed(i) /\ UNCHANGED <<httpVars, quotaVars, appVars>>
    \/ \E p \in Clients, c \in Candidates :
          verifyOTP(p, c) /\ UNCHANGED <<httpVars, quotaVars, appVars>>
    \/ cleanupExpiredOTPs /\ UNCHANGED <<httpVars, quotaVars, appVars>>
    \/ \E t \in Instants : Advance(t) /\ UNCHANGED <<httpVars, quotaVars, appVars>>

Spec == Init /\ [][Next]_vars

\* The same program over the instants of the rate window.
NextHour ==
    \/ \E p \in Clients : sendOTP(p) /\ UNCHANGED <<httpVars, quotaVars, appVars>>
    \/ \E i \in 1..MaxInFlight : smsDelivered(i) /\ UNCHANGED <<httpVars, quotaVars, appVars>>
    \/ \E i \in 1..MaxInFlight : smsFailed(i) /\ UNCHANGED <<httpVars, quotaVars, appVars>>
    \/ \E p \in Clients, c \in Candidates :
          verifyOTP(p, c) /\ UNCHANGED <<httpVars, quotaVars, appVars>>
    \/ cleanupExpiredOTPs /\ UNCHANGED <<httpVars, quotaVars, appVars>>
    \/ \E t \in HourInstants : Advance(t) /\ UNCHANGED <<httpVars, quotaVars, appVars>>

HourSpec == Init /\ [][NextHour]_vars

\* The program with the verify-otp endpoint under concurrent requests.
NextHttp ==
    \/ \E p \in Clients : sendOTP(p) /\ UNCHANGED <<httpVars, quotaVars, appVars>>
    \/ \E i \in 1..MaxInFlight : smsDelivered(i) /\ UNCHANGED <<httpVars, quotaVars, appVars>>
    \/ \E req \in Bodies : receiveVerifyOtp(req) /\ UNCHANGED <<quotaVars, appVars>>
    \/ \E req \in Bodies : verifyOtp(req) /\ UNCHANGED <<quotaVars, appVars>>
    \/ cleanupExpiredOTPs /\ UNCHANGED <<httpVars, quotaVars, appVars>>
    \/ \E t \in HttpInstants : Advance(t) /\ UNCHANGED <<httpVars, quotaVars, appVars>>

HttpSpec == Init /\ [][NextHttp]_vars


\* The program with clients that send numbers of other shapes.
FormatClients == {PhoneLetters, PhoneShort}

NextFormat ==
    \/ \E p \in FormatClients : sendOTP(p) /\ UNCHANGED <<httpVars, quotaVars, appVars>>
    \/ \E i \in 1..MaxInFlight :
          smsDelivered(i) /\ UNCHANGED <<httpVars, quotaVars, appVars>>
    \/ \E i \in 1..MaxInFlight :
          smsFailed(i) /\ UNCHANGED <<httpVars, quotaVars, appVars>>
    \/ \E p \in FormatClients, c \in Candidates :
          verifyOTP(p, c) /\ UNCHANGED <<httpVars, quotaVars, appVars>>
    \/ cleanupExpiredOTPs /\ UNCHANGED <<httpVars, quotaVars, appVars>>
    \/ \E t \in FormatInstants : Advance(t) /\ UNCHANGED <<httpVars, quotaVars, appVars>>

FormatSpec == Init /\ [][NextFormat]_vars

\* The program with two phones in use: the records are stored at the first
\* instant, one only for the second phone, and may then expire.
PairClients == {PhoneA, PhoneB}
\* The candidates tried in PairSpec: a code that may be the stored one and one
\* that never is.
PairCandidates == {"1000", "0000"}

NextPair ==
    \/ \E p \in PairClients :
          /\ sendOutcome(p) = "Stored" =>
                /\ now = 0
                /\ p = PhoneB => accepted[p] = <<>>
          /\ sendOTP(p)
          /\ UNCHANGED <<httpVars, quotaVars, appVars>>
    \/ \E i \in 1..MaxInFlight :
          smsDelivered(i) /\ UNCHANGED <<httpVars, quotaVars, appVars>>
    \/ \E i \in 1..MaxInFlight :
          smsFailed(i) /\ UNCHANGED <<httpVars, quotaVars, appVars>>
    \/ \E p \in PairClients, c \in PairCandidates :
          verifyOTP(p, c) /\ UNCHANGED <<httpVars, quotaVars, appVars>>
    \/ cleanupExpiredOTPs /\ UNCHANGED <<httpVars, quotaVars, appVars>>
    \/ \E t \in PairInstants : Advance(t) /\ UNCHANGED <<httpVars, quotaVars, appVars>>

PairSpec == Init /\ [][NextPair]_vars

\* The program with its interval timer and its clock going on: the sweep
\* fires again and again (setInterval) and the time passes. The clients ask
\* for codes as long as the clock of the model has an hour to go.
NextSweep ==
    \/ \E p \in Clients :
          /\ sendOutcome(p) = "Stored" =>
                \E t \in SweepInstants : t - now >= RATE_LIMIT_WINDOW_MS
          /\ sendOTP(p)
          /\ UNCHANGED <<httpVars, quotaVars, appVars>>
    \/ \E i \in 1..MaxInFlight :
          smsDelivered(i) /\ UNCHANGED <<httpVars, quotaVars, appVars>>
    \/ \E i \in 1..MaxInFlight :
          smsFailed(i) /\ UNCHANGED <<httpVars, quotaVars, appVars>>
    \/ \E p \in Clients, c \in Candidates :
          verifyOTP(p, c) /\ UNCHANGED <<httpVars, quotaVars, appVars>>
    \/ cleanupExpiredOTPs /\ UNCHANGED <<httpVars, quotaVars, appVars>>
    \/ \E t \in SweepInstants : Advance(t) /\ UNCHANGED <<httpVars, quotaVars, appVars>>

SweepSpec ==
    /\ Init
    /\ [][NextSweep]_vars
    /\ WF_vars(cleanupExpiredOTPs /\ UNCHANGED <<httpVars, quotaVars, appVars>>)
    /\ WF_vars(\E t \in SweepInstants :
                  Advance(t) /\ UNCHANGED <<httpVars, quotaVars, appVars>>)

\* The program with a clock that is read between the whole seconds.
RetryClients == {PhoneA}

NextRetry ==
    \/ \E p \in RetryClients : sendOTP(p) /\ UNCHANGED <<httpVars, quotaVars, appVars>>
    \/ \E i \in 1..MaxInFlight : smsDelivered(i) /\ UNCHANGED <<httpVars, quotaVars, appVars>>
    \/ \E i \in 1..MaxInFlight : smsFailed(i) /\ UNCHANGED <<httpVars, quotaVars, appVars>>
    \/ \E p \in RetryClients, c \in Candidates :
          verifyOTP(p, c) /\ UNCHANGED <<httpVars, quotaVars, appVars>>
    \/ cleanupExpiredOTPs /\ UNCHANGED <<httpVars, quotaVars, appVars>>
    \/ \E t \in RetryInstants : Advance(t) /\ UNCHANGED <<httpVars, quotaVars, appVars>>

RetrySpec == Init /\ [][NextRetry]_vars

\* The quota handlers with their requests overlapping, within one month. The
\* user starts it with nothing used (free) or one short of each limit
\* (premium).
QuotaInit ==
    /\ now = 0
    /\ otpStore = EmptyMap
    /\ rateLimitStore = EmptyMap
    /\ inFlight = <<>>
    /\ last = Reply("none", <<>>, "none", 0)
    /\ requests = [req \in Bodies |-> 0]
    /\ overlapped = FALSE
    /\ accepted = [p \in Phones |-> <<>>]
    /\ audit = [p \in Phones |-> Audit("", FALSE)]
    /\ today = FirstDay
    /\ \E role \in {"guest", "host"} :
          users \in {[uid \in UserIds |->
                        User("free", role, 0, FirstDay, 0, FirstDay)],
                    [uid \in UserIds |->
                        User("premium", role, 9, FirstDay, 19, FirstDay)]}
    /\ quotaRequests = [r \in Slots |-> Idle]
    /\ quotaLast = QuotaReply("", "none", 0, "none", {}, {}, {})
    /\ AppInit
    /\ consumed = [uid \in UserIds |->
                     [contact |-> users[uid].contactViewsUsed,
                      listing |-> users[uid].propertiesListedThisMonth,
                      created |-> users[uid].propertiesListedThisMonth]]

QuotaNext ==
    \/ \E r \in Slots, uid \in UserIds, kind \in Kinds, ok \in BOOLEAN :
          receiveQuota(r, uid, kind, ok) /\ UNCHANGED <<serviceVars, httpVars, appVars>>
    \/ \E r \in Slots : protect(r) /\ UNCHANGED <<serviceVars, httpVars, appVars>>
    \/ \E r \in Slots : findProperty(r) /\ UNCHANGED <<serviceVars, httpVars, appVars>>
    \/ \E r \in Slots : resetSaved(r) /\ UNCHANGED <<serviceVars, httpVars, appVars>>
    \/ \E r \in Slots : upgradeSaved(r) /\ UNCHANGED <<serviceVars, httpVars, appVars>>
    \/ \E r \in Slots :
          propertyCreated(r) /\ UNCHANGED <<serviceVars, httpVars, appVars>>
    \/ \E r \in Slots : consumeSaved(r) /\ UNCHANGED <<serviceVars, httpVars, appVars>>

QuotaSpec == QuotaInit /\ [][QuotaNext]_vars

\* The quota handlers with one request at a time, over the months, for a
\* free user whose stored document is any a first request can find: each
\* counter at 0, one short of its limit or at it, each reset date in this
\* month, in the last one or in the same month of last year.
StoredCounts(limit) == {0, limit - 1, limit}

MonthInit ==
    /\ now = 0
    /\ otpStore = EmptyMap
    /\ rateLimitStore = EmptyMap
    /\ inFlight = <<>>
    /\ last = Reply("none", <<>>, "none", 0)
    /\ requests = [req \in Bodies |-> 0]
    /\ overlapped = FALSE
    /\ accepted = [p \in Phones |-> <<>>]
    /\ audit = [p \in Phones |-> Audit("", FALSE)]
    /\ today = FirstDay
    /\ \E accountType \in {"free"}, role \in {"guest", "host"},
          contactDate \in EarlierDays, listingDate \in EarlierDays :
          \E contactViewsUsed \in
                StoredCounts(getAccountLimits(accountType).contactViews),
             propertiesListed \in
                StoredCounts(getAccountLimits(accountType).propertyListings) :
            users = [uid \in UserIds |->
                       User(accountType, role, contactViewsUsed, contactDate,
                            propertiesListed, listingDate)]
    /\ quotaRequests = [r \in Slots |-> Idle]
    /\ quotaLast = QuotaReply("", "none", 0, "none", {}, {}, {})
    /\ AppInit
    /\ consumed =
         [uid \in UserIds |->
            [contact |-> IF monthChanged(today, users[uid].contactViewsResetDate)
                         THEN 0 ELSE users[uid].contactViewsUsed,
             listing |-> IF monthChanged(today,
                                         users[uid].propertiesListedResetDate)
                         THEN 0 ELSE users[uid].propertiesListedThisMonth,
             created |-> IF monthChanged(today,
                                         users[uid].propertiesListedResetDate)
                         THEN 0 ELSE users[uid].propertiesListedThisMonth]]

\* No request is being handled.
quiet == \A r \in Slots : quotaRequests[r].pc = "idle"

MonthNext ==
    \/ \E r \in Slots, uid \in UserIds, kind \in Kinds, ok \in BOOLEAN :
          /\ quiet
          /\ receiveQuota(r, uid, kind, ok)
          /\ UNCHANGED <<serviceVars, httpVars, appVars>>
    \/ \E r \in Slots : protect(r) /\ UNCHANGED <<serviceVars, httpVars, appVars>>
    \/ \E r \in Slots : findProperty(r) /\ UNCHANGED <<serviceVars, httpVars, appVars>>
    \/ \E r \in Slots : resetSaved(r) /\ UNCHANGED <<serviceVars, httpVars, appVars>>
    \/ \E r \in Slots : upgradeSaved(r) /\ UNCHANGED <<serviceVars, httpVars, appVars>>
    \/ \E r \in Slots :
          propertyCreated(r) /\ UNCHANGED <<serviceVars, httpVars, appVars>>
    \/ \E r \in Slots : consumeSaved(r) /\ UNCHANGED <<serviceVars, httpVars, appVars>>
    \/ \E date \in Days :
          AdvanceDay(date) /\ UNCHANGED <<serviceVars, httpVars, appVars>>

MonthSpec == MonthInit /\ [][MonthNext]_vars

\* The quota handlers with one request at a time, within one month, for both
\* tiers with each counter one short of its limit or at it.
TierInit ==
    /\ now = 0
    /\ otpStore = EmptyMap
    /\ rateLimitStore = EmptyMap
    /\ inFlight = <<>>
    /\ last = Reply("none", <<>>, "none", 0)
    /\ requests = [req \in Bodies |-> 0]
    /\ overlapped = FALSE
    /\ accepted = [p \in Phones |-> <<>>]
    /\ audit = [p \in Phones |-> Audit("", FALSE)]
    /\ today = FirstDay
    /\ \E accountType \in {"free", "premium"}, role \in {"guest", "host"} :
          \E contactViewsUsed \in
                StoredCounts(getAccountLimits(accountType).contactViews) \ {0},
             propertiesListed \in
                StoredCounts(getAccountLimits(accountType).propertyListings)
                    \ {0} :
            users = [uid \in UserIds |->
                       User(accountType, role, contactViewsUsed, FirstDay,
                            propertiesListed, FirstDay)]
    /\ quotaRequests = [r \in Slots |-> Idle]
    /\ quotaLast = QuotaReply("", "none", 0, "none", {}, {}, {})
    /\ AppInit
    /\ consumed = [uid \in UserIds |->
                     [contact |-> users[uid].contactViewsUsed,
                      listing |-> users[uid].propertiesListedThisMonth,
                      created |-> users[uid].propertiesListedThisMonth]]

TierNext ==
    \/ \E r \in Slots, uid \in UserIds, kind \in Kinds, ok \in BOOLEAN :
          /\ quiet
          /\ receiveQuota(r, uid, kind, ok)
          /\ UNCHANGED <<serviceVars, httpVars, appVars>>
    \/ \E r \in Slots : protect(r) /\ UNCHANGED <<serviceVars, httpVars, appVars>>
    \/ \E r \in Slots : findProperty(r) /\ UNCHANGED <<serviceVars, httpVars, appVars>>
    \/ \E r \in Slots : resetSaved(r) /\ UNCHANGED <<serviceVars, httpVars, appVars>>
    \/ \E r \in Slots : upgradeSaved(r) /\ UNCHANGED <<serviceVars, httpVars, appVars>>
    \/ \E r \in Slots :
          propertyCreated(r) /\ UNCHANGED <<serviceVars, httpVars, appVars>>
    \/ \E r \in Slots : consumeSaved(r) /\ UNCHANGED <<serviceVars, httpVars, appVars>>

TierSpec == TierInit /\ [][TierNext]_vars

\* The payment routes with two users, and a contact request of the first
\* handled at the same time.
PayInit ==
    /\ now = 0
    /\ otpStore = EmptyMap
    /\ rateLimitStore = EmptyMap
    /\ inFlight = <<>>
    /\ last = Reply("none", <<>>, "none", 0)
    /\ requests = [req \in Bodies |-> 0]
    /\ overlapped = FALSE
    /\ accepted = [p \in Phones |-> <<>>]
    /\ audit = [p \in Phones |-> Audit("", FALSE)]
    /\ today = FirstDay
    /\ users = [uid \in Payers |->
                  User("free", "guest", 0, FirstDay, 0, FirstDay)]
    /\ quotaRequests = [r \in Slots |-> Idle]
    /\ quotaLast = QuotaReply("", "none", 0, "none", {}, {}, {})
    /\ AppInit
    /\ consumed = [uid \in UserIds |-> NoSuccesses]

payFrame == <<serviceVars, httpVars, authVars, viewVars>>

PayNext ==
    \/ \E uid \in Payers : createOrder(uid) /\ UNCHANGED <<payFrame, quotaVars>>
    \/ \E order_id \in OrderIds, payment_id \in PaymentIds :
          checkout(order_id, payment_id) /\ UNCHANGED <<payFrame, quotaVars>>
    \/ \E uid \in Payers, order_id \in OrderIds \cup {""},
           payment_id \in PaymentIds :
          \E signature \in Signatures(order_id, payment_id) :
            /\ verifyPayment(uid, order_id, payment_id, signature)
            /\ UNCHANGED <<payFrame, quotaVars>>
    \/ paymentUserFound /\ UNCHANGED <<payFrame, quotaVars>>
    \/ /\ paymentSaved
       /\ UNCHANGED <<payFrame, today, quotaRequests, quotaLast, consumed>>
    \/ \E uid \in UserIds :
          /\ receiveQuota(1, uid, "contact", TRUE)
          /\ UNCHANGED <<payFrame, payVars>>
    \/ protect(1) /\ UNCHANGED <<payFrame, payVars>>
    \/ findProperty(1) /\ UNCHANGED <<payFrame, payVars>>
    \/ resetSaved(1) /\ UNCHANGED <<payFrame, payVars>>
    \/ consumeSaved(1) /\ UNCHANGED <<payFrame, payVars>>

PaySpec == PayInit /\ [][PayNext]_vars

\* The quota handlers and the upgrade to premium with one request at a time,
\* across the end of a month; the user orders once.
LimitDays == {20119, 20120}

LimitNext ==
    \/ \E r \in Slots, uid \in UserIds, kind \in Kinds, ok \in BOOLEAN :
          /\ quiet /\ payRequest.pc = "idle"
          /\ receiveQuota(r, uid, kind, ok)
          /\ UNCHANGED <<payFrame, payVars>>
    \/ \E r \in Slots : protect(r) /\ UNCHANGED <<payFrame, payVars>>
    \/ \E r \in Slots : findProperty(r) /\ UNCHANGED <<payFrame, payVars>>
    \/ \E r \in Slots : resetSaved(r) /\ UNCHANGED <<payFrame, payVars>>
    \/ \E r \in Slots : upgradeSaved(r) /\ UNCHANGED <<payFrame, payVars>>
    \/ \E r \in Slots : propertyCreated(r) /\ UNCHANGED <<payFrame, payVars>>
    \/ \E r \in Slots : consumeSaved(r) /\ UNCHANGED <<payFrame, payVars>>
    \/ \E date \in LimitDays : AdvanceDay(date) /\ UNCHANGED <<payFrame, payVars>>
    \/ \E uid \in UserIds :
          /\ quiet /\ orders = {}
          /\ createOrder(uid)
          /\ UNCHANGED <<payFrame, quotaVars>>
    \/ \E order_id \in OrderIds, payment_id \in PaymentIds :
          checkout(order_id, payment_id) /\ UNCHANGED <<payFrame, quotaVars>>
    \/ \E uid \in UserIds, order_id \in OrderIds, payment_id \in PaymentIds :
          /\ quiet
          /\ verifyPayment(uid, order_id, payment_id,
                           hmac(KEY_SECRET, signedBody(order_id, payment_id)))
          /\ Payment(order_id, payment_id) \in payments
          /\ UNCHANGED <<payFrame, quotaVars>>
    \/ paymentUserFound /\ UNCHANGED <<payFrame, quotaVars>>
    \/ /\ paymentSaved
       /\ UNCHANGED <<payFrame, today, quotaRequests, quotaLast, consumed>>

LimitSpec == Init /\ [][LimitNext]_vars

\* The protected routes, with users deleted and signed up again.
AuthInit ==
    /\ now = 0
    /\ otpStore = EmptyMap
    /\ rateLimitStore = EmptyMap
    /\ inFlight = <<>>
    /\ last = Reply("none", <<>>, "none", 0)
    /\ requests = [req \in Bodies |-> 0]
    /\ overlapped = FALSE
    /\ accepted = [p \in Phones |-> <<>>]
    /\ audit = [p \in Phones |-> Audit("", FALSE)]
    /\ today = FirstDay
    /\ users = [uid \in UserIds |->
                  User("free", "guest", 0, FirstDay, 0, FirstDay)]
    /\ quotaRequests = [r \in Slots |-> Idle]
    /\ quotaLast = QuotaReply("", "none", 0, "none", {}, {}, {})
    /\ consumed = [uid \in UserIds |-> NoSuccesses]
    /\ orders = {}
    /\ payments = {}
    /\ payRequest = PayIdle
    /\ payLast = PayReply("", "none", 0, "none")
    /\ accounts = AuthUsers
    /\ authRequest = AuthIdle
    /\ authLast = AuthReply("none", 0, "none", <<>>)
    /\ signups = {}
    /\ verifiedPhones = {}
    /\ property = Property(0, <<>>)
    /\ viewRequests = [r \in ViewSlots |-> ViewIdle]
    /\ served = 0

authFrame == <<serviceVars, httpVars, quotaVars, payVars, viewVars>>

AuthNext ==
    \/ \E req \in AuthRequests : protectToken(req) /\ UNCHANGED authFrame
    \/ protectUser /\ UNCHANGED authFrame
    \/ \E id \in AuthUsers : deleteUser(id) /\ UNCHANGED authFrame
    \/ \E phone \in AuthUsers :
          completeSignup(phone, TRUE) /\ UNCHANGED authFrame
    \/ \E signup \in signups : signupFindOne(signup) /\ UNCHANGED authFrame
    \/ \E signup \in signups : signupCreate(signup) /\ UNCHANGED authFrame

AuthSpec == AuthInit /\ [][AuthNext]_vars

\* The OTP login and the signup that follows it.
SignupClients == {PhoneA}
SignupPhones == {PhoneA, PhoneLocal, PhoneLetters, <<>>}
signupFrame == <<httpVars, quotaVars, payVars, viewVars>>

SignupNext ==
    \/ \E p \in SignupClients :
          sendOTP(p) /\ UNCHANGED <<signupFrame, authVars>>
    \/ \E i \in 1..MaxInFlight :
          smsDelivered(i) /\ UNCHANGED <<signupFrame, authVars>>
    \/ \E p \in SignupClients, c \in Candidates :
          verifyOTPNoted(p, c) /\ UNCHANGED signupFrame
    \/ \E phone \in SignupPhones, filled \in BOOLEAN :
          completeSignup(phone, filled) /\ UNCHANGED <<signupFrame, serviceVars>>
    \/ \E signup \in signups :
          signupFindOne(signup) /\ UNCHANGED <<signupFrame, serviceVars>>
    \/ \E signup \in signups :
          signupCreate(signup) /\ UNCHANGED <<signupFrame, serviceVars>>

SignupSpec == Init /\ [][SignupNext]_vars

\* getProperty requests overlapping, across the end of a day.
ViewDays == {20119, 20120}
viewFrame == <<serviceVars, httpVars, payVars, authVars>>

ViewNext ==
    \/ \E r \in ViewSlots : receiveView(r) /\ UNCHANGED <<viewFrame, quotaVars>>
    \/ \E r \in ViewSlots : propertyFound(r) /\ UNCHANGED <<viewFrame, quotaVars>>
    \/ \E r \in ViewSlots : viewTracked(r) /\ UNCHANGED <<viewFrame, quotaVars>>
    \/ \E r \in ViewSlots : viewPushed(r) /\ UNCHANGED <<viewFrame, quotaVars>>
    \/ \E date \in ViewDays : AdvanceDay(date) /\ UNCHANGED <<viewFrame, viewVars>>

ViewSpec == Init /\ [][ViewNext]_vars

\* ------------------------------------------------------------------ claims
ValidPhones == {PhoneA, PhoneB}
TenMinutesMs == 600000
MinuteMs == 60000

\* The time of the latest accepted request of a phone within the last hour.
LastSend(p) == accepted[p][Len(accepted[p])]

\* C1: verifyCode returns Verified only if a record for the phone exists, the
\* candidate is the code stored by the latest accepted requestCode, the time
\* does not exceed the record's expiresAt (ten minutes after that request)
\* and fewer than 3 mismatches were counted on the record.
C1_VerifiedOnlyIfLive ==
    \A p \in Phones, c \in Candidates :
        verifyOutcome(p, c) = "Verified" =>
            /\ MapHas(otpStore, p)
            /\ c = audit[p].code
            /\ now <= otpStore[p].expiresAt
            /\ accepted[p] # <<>> /\ now <= LastSend(p) + TenMinutesMs
            /\ audit[p].mismatched < 3

\* A code is verified at the last instant of its life after two mismatches.
C1_Witness ==
    /\ last = Reply("verifyOTP", PhoneA, "Verified", 0)
    /\ audit[PhoneA].mismatched = 2
    /\ now = 600000

\* C2: per phone, at most 5 requests are accepted within an hour, and a
\* request made while 5 accepted ones lie within the preceding hour is
\* answered RateLimited.
C2_AtMostFivePerHour ==
    \A p \in Phones :
        /\ Len(accepted[p]) <= 5
        /\ Len(accepted[p]) >= 5 => sendOutcome(p) = "RateLimited"

\* The sixth request within the hour was rejected, the record of the fifth
\* being already deleted by a verification.
C2_Witness ==
    /\ last.op = "sendOTP" /\ last.phone = PhoneA
    /\ last.outcome = "RateLimited"
    /\ Len(accepted[PhoneA]) = 5
    /\ ~MapHas(otpStore, PhoneA)
    /\ now = 3599999

\* C3: a request for a well-formed phone made when fewer than 5 accepted
\* requests lie within the last hour and no record younger than 60 s exists
\* is accepted, and it stores a fresh record.
C3_Accepted(p) ==
    /\ last'.outcome = "Stored"
    /\ MapHas(otpStore', p)
    /\ otpStore'[p].createdAt = now
    /\ otpStore'[p].expiresAt = now + TenMinutesMs
    /\ otpStore'[p].attempts = 0
    /\ rateLimitStore'[p][Len(rateLimitStore'[p])] = now

C3_Unblocked(p) ==
    /\ Len(accepted[p]) < 5
    /\ ~(MapHas(otpStore, p) /\ now - otpStore[p].createdAt < MinuteMs)

C3_NeverBlockedForever ==
    /\ [](\A p \in ValidPhones : C3_Unblocked(p) => sendOutcome(p) = "Stored")
    /\ [][\A p \in ValidPhones :
            sendOTP(p) /\ C3_Unblocked(p) => C3_Accepted(p)]_vars

\* The phone was answered RateLimited, the clock has reached the end of the
\* hour of its five requests, and the next request is one that is accepted.
C3_Witness ==
    /\ last.op = "sendOTP" /\ last.phone = PhoneA
    /\ last.outcome = "RateLimited"
    /\ now = 3600000
    /\ Len(rateLimitStore[PhoneA]) = 5
    /\ C3_Unblocked(PhoneA)
    /\ sendOutcome(PhoneA) = "Stored"

\* C4 as stated: a request that is not rate limited and comes less than 60 s
\* after the phone's last accepted request is answered CooldownActive.
C4_CooldownAfterEverySend ==
    \A p \in ValidPhones :
        (/\ accepted[p] # <<>>
         /\ now - LastSend(p) < MinuteMs
         /\ sendOutcome(p) # "RateLimited") => sendOutcome(p) = "CooldownActive"

\* C4, amended: such a request is answered CooldownActive as long as the
\* record of that last request is in the store; the record is gone within
\* the 60 s only when a verification matched or found the attempts used up,
\* and then the request is accepted.
C4_CooldownWhileRecordLives ==
    \A p \in ValidPhones :
        (/\ accepted[p] # <<>>
         /\ now - LastSend(p) < MinuteMs
         /\ sendOutcome(p) # "RateLimited") =>
            IF MapHas(otpStore, p)
            THEN sendOutcome(p) = "CooldownActive"
            ELSE /\ sendOutcome(p) = "Stored"
                 /\ audit[p].verified \/ audit[p].mismatched = 3

\* A request a millisecond before the end of the cooldown was rejected, a
\* mismatching verification having come in between.
C4_Witness ==
    /\ last = Reply("sendOTP", PhoneA, "CooldownActive", 1)
    /\ now = 59999
    /\ LastSend(PhoneA) = 0
    /\ audit[PhoneA].mismatched >= 1

\* C5: the record in the store is that of the phone's latest accepted request,
\* and a request accepted while a record exists (so after its cooldown)
\* replaces it by one with the new code, attempts 0 and new times, after
\* which the old code, unless it is the new one, is not verified.
C5_LatestOnly ==
    \A p \in DOMAIN otpStore :
        /\ otpStore[p].code = audit[p].code
        /\ accepted[p] # <<>> => otpStore[p].createdAt = LastSend(p)

C5_Replaced(p) ==
    /\ now - otpStore[p].createdAt >= MinuteMs
    /\ otpStore'[p] = [code |-> audit'[p].code, createdAt |-> now,
                       expiresAt |-> now + TenMinutesMs, attempts |-> 0]
    /\ \A c \in Candidates :
          c = otpStore[p].code /\ c # otpStore'[p].code =>
              verifyOutcome(p, c)' = "Mismatch"

C5_ResendReplaces ==
    /\ []C5_LatestOnly
    /\ [][\A p \in Phones :
            (sendOTP(p) /\ MapHas(otpStore, p) /\ sendOutcome(p) = "Stored")
                => C5_Replaced(p)]_vars

\* A record with counted mismatches was overwritten at the end of its cooldown.
C5_Witness ==
    /\ last = Reply("sendOTP", PhoneA, "Stored", 0)
    /\ audit[PhoneA].replaced
    /\ now = 60000
    /\ accepted[PhoneA] = <<0, 60000>>
    /\ otpStore[PhoneA].attempts = 0

\* C6: within the life of a record, the first three verifyCode calls with a
\* wrong candidate are answered Mismatch with 2, 1 and 0 attempts remaining
\* and keep the record; the call after three mismatches is answered
\* AttemptsExceeded for any candidate and deletes the record; a phone without
\* a record is answered NotFound and gets a record only from a requestCode.
C6_Alive(p) ==
    /\ MapHas(otpStore, p)
    /\ accepted[p] # <<>> /\ now <= LastSend(p) + TenMinutesMs

C6_Call(p, c) ==
    IF C6_Alive(p) /\ audit[p].mismatched < 3 /\ c # audit[p].code
    THEN /\ last' = Reply("verifyOTP", p, "Mismatch", 2 - audit[p].mismatched)
         /\ MapHas(otpStore', p)
         /\ otpStore'[p].code = otpStore[p].code
         /\ otpStore'[p].expiresAt = otpStore[p].expiresAt
    ELSE IF C6_Alive(p) /\ audit[p].mismatched = 3
    THEN /\ last' = Reply("verifyOTP", p, "AttemptsExceeded", 0)
         /\ ~MapHas(otpStore', p)
    ELSE IF ~MapHas(otpStore, p)
    THEN /\ last' = Reply("verifyOTP", p, "NotFound", 0)
         /\ ~MapHas(otpStore', p)
    ELSE TRUE

C6_ThreeMismatchesThenExceeded ==
    [][/\ \A p \in Phones, c \in Candidates : verifyOTP(p, c) => C6_Call(p, c)
       /\ \A p \in Phones :
            ~MapHas(otpStore, p) /\ MapHas(otpStore', p) =>
                last' = Reply("sendOTP", p, "Stored", 0)]_vars

\* The fourth call found the attempts used up and deleted the record.
C6_Witness ==
    /\ last = Reply("verifyOTP", PhoneA, "AttemptsExceeded", 0)
    /\ audit[PhoneA].mismatched = 3
    /\ audit[PhoneA].compared = 3
    /\ ~MapHas(otpStore, PhoneA)

\* C7: once a code was verified, every verifyCode for the phone is answered
\* NotFound until a requestCode stores a record again.
C7_SingleUse ==
    \A p \in Phones :
        audit[p].verified =>
            /\ ~MapHas(otpStore, p)
            /\ \A c \in Candidates : verifyOutcome(p, c) = "NotFound"

\* A verification after the successful one was answered NotFound.
C7_Witness ==
    /\ audit[PhoneA].verified
    /\ last = Reply("verifyOTP", PhoneA, "NotFound", 0)

\* C8: for a phone no requestCode ever stored a record for, verifyCode is
\* answered NotFound for every candidate and changes neither store.
C8_NeverStored(p) == audit[p].code = ""

C8_NotFoundBeforeAnyRequest ==
    /\ [](\A p \in Phones, c \in Candidates :
            C8_NeverStored(p) => verifyOutcome(p, c) = "NotFound")
    /\ [][\A p \in Phones, c \in Candidates :
            verifyOTP(p, c) /\ C8_NeverStored(p) =>
                /\ last' = Reply("verifyOTP", p, "NotFound", 0)
                /\ UNCHANGED <<otpStore, rateLimitStore>>]_vars

\* A phone without any stored request was answered NotFound while another
\* phone has a record and a rate-limit array.
C8_Witness ==
    /\ C8_NeverStored(PhoneShort)
    /\ last = Reply("verifyOTP", PhoneShort, "NotFound", 0)
    /\ MapHas(otpStore, PhoneA)
    /\ MapHas(rateLimitStore, PhoneA)

\* C9: a verifyCode on a record is answered Expired, and deletes the record,
\* exactly when the time exceeds createdAt + 10 minutes, for every candidate
\* and every attempts count; at or before that time it is not.
C9_Call(p) ==
    IF now > otpStore[p].createdAt + TenMinutesMs
    THEN /\ last' = Reply("verifyOTP", p, "Expired", 0)
         /\ ~MapHas(otpStore', p)
    ELSE last'.outcome \in {"AttemptsExceeded", "Verified", "Mismatch"}

C9_ExpiredAfterTenMinutes ==
    [][\A p \in Phones, c \in Candidates :
          verifyOTP(p, c) /\ MapHas(otpStore, p) => C9_Call(p)]_vars

\* A record with its three attempts used up was answered Expired, not
\* AttemptsExceeded, a millisecond after its expiry.
C9_Witness ==
    /\ last = Reply("verifyOTP", PhoneA, "Expired", 0)
    /\ now = 600001
    /\ LastSend(PhoneA) = 0
    /\ audit[PhoneA].mismatched = 3
    /\ ~MapHas(otpStore, PhoneA)

\* C10: with verify-otp requests for one phone in flight together, handled
\* in any order, the attempts of a stored record are the number of
\* mismatching calls evaluated against it, and at most 3 candidates are
\* compared with one record.
C10_AttemptsCountCalls ==
    /\ \A p \in DOMAIN otpStore : otpStore[p].attempts = audit[p].mismatched
    /\ \A p \in Phones :
          /\ audit[p].compared <= 3
          /\ audit[p].mismatched <= audit[p].compared

\* Two requests with the same phone and the same wrong code were in flight
\* together and both were counted.
C10_Witness ==
    /\ overlapped
    /\ waiting = 0
    /\ MapHas(otpStore, PhoneA)
    /\ otpStore[PhoneA].attempts = 2
    /\ audit[PhoneA].mismatched = 2
    /\ last = Reply("verifyOTP", PhoneA, "Mismatch", 1)

\* The counter and the limit a kind of request goes by.
usedOf(user, kind) ==
    IF kind = "contact" THEN user.contactViewsUsed
    ELSE user.propertiesListedThisMonth

limitOf(user, kind) ==
    IF kind = "contact" THEN getAccountLimits(user.accountType).contactViews
    ELSE getAccountLimits(user.accountType).propertyListings

\* C11: however the contact and listing requests of one user interleave
\* within a month, the requests that succeed do not exceed the tier's limit,
\* and with no request in hand the stored counter is the number of successful
\* consumptions of the month.
C11_QuotaSerialized ==
    \A uid \in UserIds :
        /\ consumed[uid].contact
              <= getAccountLimits(users[uid].accountType).contactViews
        /\ consumed[uid].listing
              <= getAccountLimits(users[uid].accountType).propertyListings
        /\ quiet => /\ users[uid].contactViewsUsed = consumed[uid].contact
                    /\ users[uid].propertiesListedThisMonth
                         = consumed[uid].listing

\* C12 as stated: at the limit test a request whose counter is at the limit
\* is answered LimitReached and the stored counter stays; one whose counter
\* is one short goes on, and its last save brings the stored counter to the
\* limit and its response reports the remaining 0, for both kinds.
C12_AtLimit(r) ==
    LET req == quotaRequests[r]
    IN  (resetSaved(r) /\ usedOf(req.user, req.kind) = limitOf(req.user, req.kind))
            => /\ quotaLast'.outcome = "LimitReached"
               /\ quotaLast'.kind = req.kind
               /\ quotaRequests'[r] = Idle
               /\ usedOf(users'[req.uid], req.kind)
                    = usedOf(users[req.uid], req.kind)
               /\ usedOf(users'[req.uid], req.kind)
                    = limitOf(req.user, req.kind)

C12_OneShort(r) ==
    LET req == quotaRequests[r]
    IN  /\ (/\ resetSaved(r)
            /\ usedOf(req.user, req.kind) = limitOf(req.user, req.kind) - 1
            /\ req.ok)
              => /\ quotaRequests'[r].pc \in {"consumeSave", "upgradeSave",
                                              "create"}
                 /\ UNCHANGED quotaLast
        /\ (/\ consumeSaved(r)
            /\ usedOf(users[req.uid], req.kind)
                 = limitOf(req.user, req.kind) - 1)
              => /\ quotaLast'.outcome = "Consumed"
                 /\ usedOf(users'[req.uid], req.kind)
                      = limitOf(req.user, req.kind)

C12_RemainingReported ==
    [][\A r \in Slots :
          /\ C12_AtLimit(r)
          /\ C12_OneShort(r)
          /\ (/\ consumeSaved(r)
              /\ usedOf(users[quotaRequests[r].uid], quotaRequests[r].kind)
                   = limitOf(quotaRequests[r].user, quotaRequests[r].kind) - 1)
                => quotaLast'.remaining = {0}]_vars

\* C12, amended: the same, the remaining 0 being reported for a contact
\* reveal; the response of a listing creation (the created property) reports
\* no remaining, and the listing goes through only with a valid body.
C12_BoundaryBothKinds ==
    [][\A r \in Slots :
          /\ C12_AtLimit(r)
          /\ C12_OneShort(r)
          /\ (/\ consumeSaved(r)
              /\ usedOf(users[quotaRequests[r].uid], quotaRequests[r].kind)
                   = limitOf(quotaRequests[r].user, quotaRequests[r].kind) - 1)
                => quotaLast'.remaining
                     = IF quotaRequests[r].kind = "contact" THEN {0} ELSE {}]_vars

\* A premium user's twentieth listing of the month went through.
C12_Witness ==
    /\ quotaLast = QuotaReply("u1", "listing", 201, "Consumed", {}, {}, {})
    /\ users["u1"].accountType = "premium"
    /\ users["u1"].propertiesListedThisMonth = 20
    /\ consumed["u1"].listing = 20

\* The step of a request that calls resetMonthlyCountersIfNeeded, and the
\* document it is called on.
callsReset(r) ==
    \/ protect(r) /\ quotaRequests[r].kind = "listing"
    \/ findProperty(r) /\ quotaRequests[r].ok

resetSubject(r) ==
    IF quotaRequests[r].kind = "listing" THEN users[quotaRequests[r].uid]
    ELSE quotaRequests[r].user

sameMonth(date, other) ==
    civil(date).month = civil(other).month /\ civil(date).year = civil(other).year

\* Both counters of a document incremented.
bothConsumed(user) ==
    [user EXCEPT !.contactViewsUsed = @ + 1,
                 !.propertiesListedThisMonth = @ + 1]

\* C13: a call of resetIfNewMonth zeroes a counter and dates it today exactly
\* when its reset date lies in another (month, year) than today, and leaves
\* it otherwise; on every stored document a second call later in the same
\* month changes nothing of what the first left, also with the counters
\* incremented in between.
C13_Call(r) ==
    LET user == resetSubject(r)
        after == quotaRequests'[r].user
    IN  /\ IF sameMonth(today, user.contactViewsResetDate)
           THEN /\ after.contactViewsUsed = user.contactViewsUsed
                /\ after.contactViewsResetDate = user.contactViewsResetDate
           ELSE /\ after.contactViewsUsed = 0
                /\ after.contactViewsResetDate = today
        /\ IF sameMonth(today, user.propertiesListedResetDate)
           THEN /\ after.propertiesListedThisMonth
                     = user.propertiesListedThisMonth
                /\ after.propertiesListedResetDate
                     = user.propertiesListedResetDate
           ELSE /\ after.propertiesListedThisMonth = 0
                /\ after.propertiesListedResetDate = today

C13_Twice(user) ==
    \A later \in Days :
        (later >= today /\ sameMonth(later, today)) =>
            LET first == resetMonthlyCountersIfNeeded(user, today)
            IN  /\ resetMonthlyCountersIfNeeded(first, later) = first
                /\ resetMonthlyCountersIfNeeded(bothConsumed(first), later)
                     = bothConsumed(first)

C13_ResetIdempotent ==
    /\ [](\A uid \in UserIds : C13_Twice(users[uid]))
    /\ [][\A r \in Slots : callsReset(r) => C13_Call(r)]_vars

\* The contact counter, zeroed on the first day of 2026 and used since, was
\* not zeroed by the call on the last day of that month: the reveal asked
\* for then was refused.
C13_Witness ==
    /\ today = 20484
    /\ users["u1"].contactViewsResetDate = 20454
    /\ users["u1"].contactViewsUsed = 1
    /\ quotaLast = QuotaReply("u1", "contact", 403, "LimitReached", {}, {1}, {1})

\* C14: a call of resetIfNewMonth on a document of which only one reset date
\* lies in another (month, year) than today zeroes and dates that counter
\* and leaves the other counter and its date; a date in the same month of
\* another year counts as another month.
C14_Call(r) ==
    LET user == resetSubject(r)
        after == quotaRequests'[r].user
        contactOld == ~sameMonth(today, user.contactViewsResetDate)
        listingOld == ~sameMonth(today, user.propertiesListedResetDate)
    IN  /\ (contactOld /\ ~listingOld) =>
              after = [user EXCEPT !.contactViewsUsed = 0,
                                   !.contactViewsResetDate = today]
        /\ (listingOld /\ ~contactOld) =>
              after = [user EXCEPT !.propertiesListedThisMonth = 0,
                                   !.propertiesListedResetDate = today]
        /\ (civil(today).month = civil(user.contactViewsResetDate).month
             /\ civil(today).year # civil(user.contactViewsResetDate).year)
              => after.contactViewsUsed = 0
                   /\ after.contactViewsResetDate = today
        /\ (civil(today).month = civil(user.propertiesListedResetDate).month
             /\ civil(today).year # civil(user.propertiesListedResetDate).year)
              => after.propertiesListedThisMonth = 0
                   /\ after.propertiesListedResetDate = today

C14_IndependentResets ==
    [][\A r \in Slots : callsReset(r) => C14_Call(r)]_vars

\* A call in January 2025 zeroed the contact counter, dated in January 2024,
\* and left the two listings counted since the middle of the month.
C14_Witness ==
    /\ today = 20119
    /\ users["u1"].contactViewsResetDate = 19737
    /\ users["u1"].contactViewsUsed = 1
    /\ quotaRequests[1].pc = "resetSave"
    /\ quotaRequests[1].dirty = {"contactViewsUsed", "contactViewsResetDate"}
    /\ quotaRequests[1].user.contactViewsUsed = 0
    /\ quotaRequests[1].user.contactViewsResetDate = 20119
    /\ quotaRequests[1].user.propertiesListedThisMonth = 2
    /\ quotaRequests[1].user.propertiesListedResetDate = 20103

isDigit(ch) == ch \in {"0", "1", "2", "3", "4", "5", "6", "7", "8", "9"}

\* "+91" followed by 10 decimal digits.
wellFormed(p) ==
    /\ Len(p) = 13
    /\ SubSeq(p, 1, 3) = <<"+", "9", "1">>
    /\ \A i \in 4..13 : isDigit(p[i])

\* C15: a requestCode for a phone that is not "+91" and 10 digits is answered
\* InvalidFormat, and no such phone has a record, a rate-limit sequence or
\* an SMS under way.
C15_OnlyWellFormedPass ==
    /\ (last.op = "sendOTP" /\ ~wellFormed(last.phone)) =>
          last.outcome = "InvalidFormat"
    /\ \A p \in Phones :
          ~wellFormed(p) =>
              /\ ~MapHas(otpStore, p)
              /\ ~MapHas(rateLimitStore, p)
              /\ \A i \in 1..Len(inFlight) : inFlight[i] # p

\* The request of the phone whose SMS call is answered is the one that stored
\* its record, less than a minute ago, and no code was tried on it.
C16_Fresh(p) ==
    /\ MapHas(otpStore, p)
    /\ audit[p].compared = 0
    /\ now - otpStore[p].createdAt < MinuteMs

\* What the failure of the SMS call i, made for phone p, leaves: the failure
\* returned with no further call made, both stores as they were, every
\* candidate answered as before, the stored code verified and the request's
\* timestamp the last of the phone's sequence.
C16_Left(i, p) ==
    /\ last' = Reply("sendOTP", p, "DispatchFailed", 0)
    /\ Len(inFlight') = Len(inFlight) - 1
    /\ UNCHANGED <<otpStore, rateLimitStore>>
    /\ \A c \in Candidates : verifyOutcome(p, c)' = verifyOutcome(p, c)
    /\ C16_Fresh(p) =>
          /\ \A c \in Candidates :
                c = otpStore[p].code => verifyOutcome(p, c)' = "Verified"
          /\ rateLimitStore'[p][Len(rateLimitStore'[p])]
               = otpStore[p].createdAt
          /\ accepted'[p][Len(accepted'[p])] = otpStore[p].createdAt

\* C16 as stated: after the failure the request made at once is answered
\* CooldownActive.
C16_RetryInCooldown ==
    [][\A i \in 1..Len(inFlight), p \in Phones :
          (smsFailed(i) /\ p = inFlight[i]) =>
              /\ C16_Left(i, p)
              /\ C16_Fresh(p) => sendOutcome(p)' = "CooldownActive"]_vars

\* C16, amended: the request made at once is rejected, with CooldownActive,
\* or with RateLimited when the failed request was the fifth of the hour.
C16_RetryRejected ==
    [][\A i \in 1..Len(inFlight), p \in Phones :
          (smsFailed(i) /\ p = inFlight[i]) =>
              /\ C16_Left(i, p)
              /\ C16_Fresh(p) =>
                    sendOutcome(p)' = IF Len(accepted[p]) >= 5
                                      THEN "RateLimited"
                                      ELSE "CooldownActive"]_vars

\* The SMS call of the second request of a phone failed: its code is there
\* to be verified and the next request is in cooldown.
C16_Witness ==
    /\ last = Reply("sendOTP", PhoneA, "DispatchFailed", 0)
    /\ C16_Fresh(PhoneA)
    /\ Len(accepted[PhoneA]) = 2
    /\ Len(rateLimitStore[PhoneA]) = 2
    /\ sendOutcome(PhoneA) = "CooldownActive"
    /\ verifyOutcome(PhoneA, audit[PhoneA].code) = "Verified"

\* What an operation on phone p leaves of every other phone q: its record
\* and its rate-limit sequence, there or not, and with them the answer to
\* any request for q.
C17_OthersUntouched(p) ==
    \A q \in Phones \ {p} :
        /\ MapHas(otpStore', q) = MapHas(otpStore, q)
        /\ MapHas(otpStore, q) => otpStore'[q] = otpStore[q]
        /\ MapHas(rateLimitStore', q) = MapHas(rateLimitStore, q)
        /\ MapHas(rateLimitStore, q) => rateLimitStore'[q] = rateLimitStore[q]
        /\ sendOutcome(q)' = sendOutcome(q)
        /\ sendRemainingTime(q)' = sendRemainingTime(q)
        /\ \A c \in Candidates : verifyOutcome(q, c)' = verifyOutcome(q, c)

\* C17: a requestCode for p (its checks and commit, and the answer of its SMS
\* call) and a verifyCode for p, whatever their outcome, leave the record,
\* the rate-limit sequence and the answers of every other phone as they were.
C17_IsolatedByKey ==
    [][\A p \in Phones :
          (/\ last'.phone = p
           /\ \/ sendOTP(p)
              \/ \E c \in Candidates : verifyOTP(p, c)
              \/ \E i \in 1..Len(inFlight) :
                    inFlight[i] = p /\ (smsDelivered(i) \/ smsFailed(i)))
            => C17_OthersUntouched(p)]_vars

\* The first phone was answered RateLimited while the second has a record
\* with a counted mismatch and is in its cooldown.
C17_Witness ==
    /\ last.op = "sendOTP" /\ last.phone = PhoneA
    /\ last.outcome = "RateLimited"
    /\ MapHas(otpStore, PhoneB)
    /\ otpStore[PhoneB].attempts = 1
    /\ rateLimitStore[PhoneB] = <<0>>
    /\ sendOutcome(PhoneB) = "CooldownActive"

\* C18: a sweep at time t removes the records with expiresAt < t and no other,
\* returns their number, leaves the other records as they are, drops from
\* every rate-limit sequence the timestamps an hour old or older and no
\* other, and removes the keys of the sequences left empty.
C18_Swept ==
    /\ \A p \in Phones :
          MapHas(otpStore', p)
            = (MapHas(otpStore, p) /\ ~(otpStore[p].expiresAt < now))
    /\ \A p \in DOMAIN otpStore' : otpStore'[p] = otpStore[p]
    /\ last' = Reply("cleanupExpiredOTPs", <<>>, "Cleaned",
                     Cardinality({p \in DOMAIN otpStore :
                                    otpStore[p].expiresAt < now}))
    /\ \A p \in Phones :
          MapHas(rateLimitStore', p)
            = (/\ MapHas(rateLimitStore, p)
               /\ \E i \in 1..Len(rateLimitStore[p]) :
                     ~(now - rateLimitStore[p][i] >= HourMs))
    /\ \A p \in DOMAIN rateLimitStore' :
          rateLimitStore'[p]
            = SelectSeq(rateLimitStore[p],
                        LAMBDA timestamp : ~(now - timestamp >= HourMs))

C18_SweepExact ==
    [][(last'.op = "cleanupExpiredOTPs" /\ cleanupExpiredOTPs) => C18_Swept]_vars

\* A sweep at the end of the hour of the first request removed the expired
\* record of the second and, of the two timestamps, the first.
C18_Witness ==
    /\ last = Reply("cleanupExpiredOTPs", <<>>, "Cleaned", 1)
    /\ now = 3600000
    /\ otpStore = EmptyMap
    /\ accepted[PhoneA] = <<600001>>
    /\ rateLimitStore[PhoneA] = <<600001>>

\* C19: for every phone that from some time on makes no requestCode, from
\* some time on the phone has no record in the OTP store and no key in the
\* rate-limit store.
C19_Reclaimed ==
    \A p \in Phones :
        <>[][~sendOTP(p)]_vars =>
            <>[](~MapHas(otpStore, p) /\ ~MapHas(rateLimitStore, p))

\* At the end of the clock a sweep removed the last record, and of the phone
\* that had asked for codes nothing is stored.
C19_Witness ==
    /\ now = 4200001
    /\ last = Reply("cleanupExpiredOTPs", <<>>, "Cleaned", 1)
    /\ audit[PhoneA].code # ""
    /\ ~MapHas(otpStore, PhoneA)
    /\ ~MapHas(rateLimitStore, PhoneA)

\* C20: no key of the rate-limit store maps to an empty sequence, every
\* sequence holds at most 5 timestamps in non-decreasing order, and a
\* requestCode that passed the format validation leaves the phone a sequence
\* of timestamps younger than an hour.
C20_Sequences ==
    \A p \in DOMAIN rateLimitStore :
        /\ Len(rateLimitStore[p]) >= 1
        /\ Len(rateLimitStore[p]) <= 5
        /\ \A i \in 1..(Len(rateLimitStore[p]) - 1) :
              rateLimitStore[p][i] <= rateLimitStore[p][i + 1]

C20_RateLimitRecord ==
    /\ []C20_Sequences
    /\ [][\A p \in Phones :
            (last'.phone = p /\ sendOTP(p)
               /\ sendOutcome(p) # "InvalidFormat") =>
                /\ MapHas(rateLimitStore', p)
                /\ \A i \in 1..Len(rateLimitStore'[p]) :
                      now - rateLimitStore'[p][i] < HourMs]_vars

\* A request rejected for the rate limit at the end of the hour of the
\* first of six requests left the five younger timestamps.
C20_Witness ==
    /\ last.op = "sendOTP" /\ last.phone = PhoneA
    /\ last.outcome = "RateLimited"
    /\ now = 3600000
    /\ Len(rateLimitStore[PhoneA]) = 5
    /\ rateLimitStore[PhoneA][1] > 0
    /\ audit[PhoneA].replaced

\* The call for phone p that is awaiting its SMS found the phone with no
\* record, stored one less than a cooldown ago, and nothing was tried on it.
C23_FirstAwaiting(p) ==
    /\ \E i \in 1..Len(inFlight) : inFlight[i] = p
    /\ MapHas(otpStore, p)
    /\ ~audit[p].replaced
    /\ audit[p].compared = 0
    /\ rateLimitStore[p] = <<otpStore[p].createdAt>>
    /\ now - otpStore[p].createdAt < MinuteMs

\* C23: a requestCode for a phone with no record checks and commits in one
\* step, before its SMS call is answered; a second requestCode made while
\* the first awaits the SMS, within the cooldown, is answered CooldownActive,
\* stores nothing and dispatches nothing.
C23_ChecksAndCommitAtomic ==
    [][\A p \in ValidPhones :
          /\ (/\ last'.phone = p
               /\ sendOTP(p)
               /\ ~MapHas(otpStore, p) /\ ~MapHas(rateLimitStore, p)) =>
                  /\ last'.outcome = "Stored"
                  /\ MapHas(otpStore', p)
                  /\ rateLimitStore'[p] = <<now>>
                  /\ Len(inFlight') = Len(inFlight) + 1
                  /\ C23_FirstAwaiting(p)'
                  /\ sendOutcome(p)' = "CooldownActive"
          /\ (/\ last'.phone = p
               /\ sendOTP(p)
               /\ C23_FirstAwaiting(p)) =>
                  /\ last'.outcome = "CooldownActive"
                  /\ UNCHANGED <<otpStore, rateLimitStore, inFlight>>]_vars

\* The second of two requests of a phone was answered CooldownActive while
\* the first, which found no record, awaits its SMS.
C23_Witness ==
    /\ last.op = "sendOTP" /\ last.phone = PhoneA
    /\ last.outcome = "CooldownActive"
    /\ C23_FirstAwaiting(PhoneA)
    /\ now = 59999

\* C24: a requestCode answered RateLimited or CooldownActive leaves the
\* record of the phone as it was, pushes no timestamp (the sequence is the
\* old one without the timestamps an hour old), makes no SMS call, and the
\* next request is answered as this one was; with the rate limit reached
\* and the cooldown active the answer is RateLimited.
C24_RejectedLeaves(p) ==
    /\ UNCHANGED <<otpStore, inFlight>>
    /\ rateLimitStore'[p]
         = SelectSeq(rateLimitStore[p],
                     LAMBDA timestamp : now - timestamp < HourMs)
    /\ \A q \in DOMAIN rateLimitStore \ {p} :
          rateLimitStore'[q] = rateLimitStore[q]
    /\ sendOutcome(p)' = sendOutcome(p)
    /\ sendRemainingTime(p)' = sendRemainingTime(p)
    /\ last'.n = sendRemainingTime(p)

C24_BothApply(p) ==
    /\ MapHas(rateLimitStore, p)
    /\ Len(SelectSeq(rateLimitStore[p],
                     LAMBDA timestamp : now - timestamp < HourMs)) >= 5
    /\ MapHas(otpStore, p)
    /\ now - otpStore[p].createdAt < MinuteMs

C24_RejectedChangesNothing ==
    [][\A p \in ValidPhones :
          (/\ last'.phone = p
           /\ sendOTP(p)) =>
              /\ last'.outcome \in {"RateLimited", "CooldownActive"} =>
                    C24_RejectedLeaves(p)
              /\ C24_BothApply(p) => last'.outcome = "RateLimited"]_vars

\* A request made in the cooldown of the fifth request of the hour was
\* answered RateLimited.
C24_Witness ==
    /\ last.op = "sendOTP" /\ last.phone = PhoneA
    /\ last.outcome = "RateLimited"
    /\ C24_BothApply(PhoneA)
    /\ otpStore[PhoneA].attempts = 1

\* C25: with a requestCode answered RateLimited or CooldownActive and r
\* seconds at time t, and nothing stored in between, the request at
\* t + r seconds is not answered so, and the request at t + (r - 1) seconds
\* is.
C25_RetryAfterExact ==
    [][\A p \in ValidPhones :
          (/\ now' > now
           /\ UNCHANGED <<otpStore, rateLimitStore>>
           /\ sendOutcome(p) \in {"RateLimited", "CooldownActive"}) =>
              /\ sendRemainingTime(p) >= 1
              /\ now' = now + 1000 * sendRemainingTime(p) =>
                    sendOutcome(p)' # sendOutcome(p)
              /\ now' = now + 1000 * (sendRemainingTime(p) - 1) =>
                    /\ sendOutcome(p)' = sendOutcome(p)
                    /\ sendRemainingTime(p)' = 1]_vars

\* A request was answered RateLimited with 3600 seconds half a second after
\* the fifth request, and 3600 seconds later the rate limit is over.
C25_Witness ==
    /\ last = Reply("sendOTP", PhoneA, "RateLimited", 3600)
    /\ rateLimitStore[PhoneA] = <<0, 0, 0, 0, 0>>
    /\ now = 3600500
    /\ sendOutcome(PhoneA) = "Stored"

\* C26: every record has expiresAt = createdAt + 10 minutes and attempts
\* from 0 to 3; attempts grows, by one, only in a verifyCode answered
\* Mismatch, and a record comes with attempts 0, or goes back to it, only in
\* a requestCode that stored it.
C26_Shape ==
    \A p \in DOMAIN otpStore :
        /\ otpStore[p].expiresAt = otpStore[p].createdAt + TenMinutesMs
        /\ otpStore[p].attempts >= 0
        /\ otpStore[p].attempts <= 3

C26_RecordInvariant ==
    /\ []C26_Shape
    /\ [][\A p \in Phones :
            /\ (/\ MapHas(otpStore, p) /\ MapHas(otpStore', p)
                 /\ otpStore'[p].attempts > otpStore[p].attempts) =>
                    /\ last'.op = "verifyOTP" /\ last'.phone = p
                    /\ last'.outcome = "Mismatch"
                    /\ otpStore'[p]
                         = [otpStore[p] EXCEPT !.attempts = @ + 1]
            /\ (/\ MapHas(otpStore', p)
                 /\ \/ ~MapHas(otpStore, p)
                    \/ otpStore'[p].attempts < otpStore[p].attempts) =>
                    /\ last'.op = "sendOTP" /\ last'.phone = p
                    /\ last'.outcome = "Stored"
                    /\ otpStore'[p].attempts = 0
                    /\ otpStore'[p].createdAt = now]_vars

\* The record that replaced another started with no attempts and has
\* three counted mismatches.
C26_Witness ==
    /\ last = Reply("verifyOTP", PhoneA, "Mismatch", 0)
    /\ audit[PhoneA].replaced
    /\ audit[PhoneA].mismatched = 3
    /\ otpStore[PhoneA].attempts = 3
    /\ otpStore[PhoneA].createdAt = 60000

\* The step in which the createProperty request of slot r is answered with a
\* rejection.
C29_Rejected(r) ==
    /\ quotaRequests[r].kind = "listing"
    /\ quotaRequests[r].pc \in {"resetSave", "upgradeSave"}
    /\ quotaRequests'[r].pc = "idle"
    /\ quotaLast'.outcome \in {"LimitReached", "InvalidBody"}

\* C29: with one request at a time, the request that creates a property
\* leaves the stored listing counter one higher, and the request that is
\* rejected creates no property and leaves the stored counter (the monthly
\* reset apart) and the stored role as they were.
C29_ListingEffects ==
    [][\A r \in Slots :
          /\ (consumeSaved(r) /\ quotaRequests[r].kind = "listing") =>
                /\ users'[quotaRequests[r].uid].propertiesListedThisMonth
                     = users[quotaRequests[r].uid].propertiesListedThisMonth + 1
                /\ users'[quotaRequests[r].uid].role = "host"
          /\ C29_Rejected(r) =>
                /\ consumed'[quotaRequests[r].uid].created
                     = consumed[quotaRequests[r].uid].created
                /\ users'[quotaRequests[r].uid].propertiesListedThisMonth
                     = quotaRequests[r].user.propertiesListedThisMonth
                /\ users'[quotaRequests[r].uid].role
                     = users[quotaRequests[r].uid].role]_vars

\* The payment request being handled is the user's own, with the signature
\* of an order that createOrder gave to that user.
C21_OwnPaidOrder(uid) ==
    /\ payRequest.uid = uid
    /\ payRequest.signature
         = hmac(KEY_SECRET, signedBody(payRequest.order, payRequest.payment))
    /\ Order(payRequest.order, uid) \in orders

\* C21: a user's accountType turns from free to premium only in the
\* verifyPayment of that user, with the signature of an order that
\* createOrder gave to that user; and it never turns from premium to free.
C21_PremiumOnlyByOwnPayment ==
    [][\A uid \in Payers :
          /\ (/\ users[uid].accountType = "free"
               /\ users'[uid].accountType = "premium") =>
                  C21_OwnPaidOrder(uid)
          /\ users[uid].accountType = "premium" =>
                users'[uid].accountType = "premium"]_vars

\* The token a request carries: the cookie's, else what follows Bearer in
\* the Authorization header.
C22_Carried(req) ==
    IF req.cookie # <<>> THEN req.cookie
    ELSE IF req.authorization.scheme = "Bearer"
    THEN req.authorization.credentials
    ELSE <<>>

\* The token verifies against the JWT secret.
C22_Verifies(token) == token.key = JWT_SECRET /\ ~token.expired

\* C22: protect calls the handler only for a request whose token verifies
\* against the JWT secret and whose user exists, with req.user that user; a
\* request with no token and one with a token that does not verify are
\* answered 401, and one with a token that verifies goes on to the user.
C22_ProtectGate ==
    [][/\ \A req \in AuthRequests :
            protectToken(req) =>
              /\ C22_Carried(req) = <<>> =>
                    /\ authLast' = AuthReply("protect", 401, "NoToken", <<>>)
                    /\ authRequest'.pc = "idle"
              /\ (C22_Carried(req) # <<>>
                     /\ ~C22_Verifies(C22_Carried(req)[1])) =>
                    /\ authLast'.status = 401
                    /\ authLast'.user = <<>>
                    /\ authRequest'.pc = "idle"
              /\ (C22_Carried(req) # <<>>
                     /\ C22_Verifies(C22_Carried(req)[1])) =>
                    /\ authRequest'.pc = "findById"
                    /\ authRequest'.id = C22_Carried(req)[1].id
       /\ protectUser =>
            IF authRequest.id \in accounts
            THEN authLast' = AuthReply("protect", 0, "Next", <<authRequest.id>>)
            ELSE authLast'.outcome # "Next" /\ authLast'.user = <<>>
       /\ (authLast'.outcome = "Next" /\ authLast' # authLast) =>
            /\ authRequest.pc = "findById"
            /\ C22_Carried(authRequest.req) # <<>>
            /\ C22_Verifies(C22_Carried(authRequest.req)[1])
            /\ C22_Carried(authRequest.req)[1].id \in accounts
            /\ authLast'.user = <<C22_Carried(authRequest.req)[1].id>>]_vars

\* The handler was called for the first user after the second was deleted.
C22_Witness ==
    /\ authLast = AuthReply("protect", 0, "Next", <<PhoneA>>)
    /\ accounts = {PhoneA}
    /\ authRequest.pc = "idle"

\* C27: with one request at a time, the stored contactViewsUsed is from 0 to
\* the contact limit and the stored propertiesListedThisMonth from 0 to the
\* listing limit of the user's tier: 1 and 2 for free, 10 and 20 for
\* premium.
C27_WithinLimits ==
    \A uid \in UserIds :
        /\ users[uid].contactViewsUsed >= 0
        /\ users[uid].propertiesListedThisMonth >= 0
        /\ users[uid].contactViewsUsed
              <= (IF users[uid].accountType = "premium" THEN 10 ELSE 1)
        /\ users[uid].propertiesListedThisMonth
              <= (IF users[uid].accountType = "premium" THEN 20 ELSE 2)

\* The user who was upgraded has used up both premium limits in the month
\* after the rollover.
C27_Witness ==
    /\ users["u1"].accountType = "premium"
    /\ users["u1"].contactViewsUsed = 10
    /\ users["u1"].propertiesListedThisMonth = 20
    /\ users["u1"].contactViewsResetDate = 20120
    /\ payLast = PayReply("u1", "verifyPayment", 200, "Upgraded")
    /\ quiet

\* C28: a phone has a user document only if a verifyCode for the phone was
\* answered Verified before.
C28_SignupAfterVerified == accounts \subseteq verifiedPhones

\* The number of the entries of a viewHistory that have the date.
RECURSIVE C30_Entries(_, _)
C30_Entries(viewHistory, date) ==
    IF viewHistory = <<>> THEN 0
    ELSE (IF viewHistory[1].date = date THEN 1 ELSE 0)
           + C30_Entries(Tail(viewHistory), date)

RECURSIVE C30_Counts(_)
C30_Counts(viewHistory) ==
    IF viewHistory = <<>> THEN 0
    ELSE viewHistory[1].count + C30_Counts(Tail(viewHistory))

\* C30: with every tracking update done, the viewHistory has at most one
\* entry for a day, and views is the number of the requests answered and
\* the sum of the counts of the viewHistory.
C30_ViewsTracked ==
    viewing = {} =>
        /\ \A date \in ViewDays :
              C30_Entries(property.viewHistory, date) <= 1
        /\ property.views = served
        /\ property.views = C30_Counts(property.viewHistory)
====
